---- MODULE Spec2Model ----
(***************************************************************************)
(* couchdb-model (src/lib/couchdb-model.js): Model / Instance over a nano  *)
(* database handle.  The module models the first, complete copy of the     *)
(* library in that file (lines 1-644, the one with the request handler).   *)
(*                                                                         *)
(* JavaScript values are records [kind, val]; plain objects (documents,    *)
(* parameter objects, instances) are functions from property names to such *)
(* values.  An instance is the merge of its own properties with the        *)
(* enumerable properties it inherits from Instance.prototype, which is     *)
(* what the for-in loops of extend() and toVO() see.                       *)
(***************************************************************************)
EXTENDS Integers, Sequences, FiniteSets, TLC

VARIABLES
    store,      \* the database: document id -> [gen, deleted, doc]
    uuids,      \* number of ids the database has assigned so far
    handles,    \* the caller's variables: slot -> instance, or Free
    sent,       \* requests the last call made on the database handle
    delivered,  \* what the last completed call delivered to its caller
    saved,      \* history: slots unchanged since their last successful save
    call,       \* the arguments of the last call of a view method
    options,    \* the options the model was constructed with
    request,    \* the last request handed to onRequest
    response,   \* what onRequest wrote to the response of that request
    db,         \* this._db: the database handle the model holds, or null
    invoked,    \* the last call of a method of the model, with its arguments
    outcome,    \* what came of that call
    pending     \* caller -> the call the database has not answered yet

vars == <<store, uuids, handles, sent, delivered, saved, call,
          options, request, response, db, invoked, outcome, pending>>

\* The model's own part of the state.
gateway == <<db, invoked, outcome, pending>>

\* The request handler's and the model's part of the state.
rest == <<options, request, response, gateway>>

-----------------------------------------------------------------------------
(* Bounds *)

MaxWrites == 3      \* writes the database accepts in one run

Slots == {"a", "b"} \* the caller's instance variables
Creators == {"a"}   \* the variables the caller assigns created instances to
Keepers == {"b"}    \* the variables the caller assigns found instances to

-----------------------------------------------------------------------------
(* JavaScript values *)

Null == [kind |-> "null", val |-> "null"]
Undefined == [kind |-> "undefined", val |-> "undefined"]
True == [kind |-> "boolean", val |-> "true"]
False == [kind |-> "boolean", val |-> "false"]
Str(s) == [kind |-> "string", val |-> s]
Num(n) == [kind |-> "number", val |-> ToString(n)]
Fn(name) == [kind |-> "function", val |-> name]
Obj(o) == [kind |-> "object", members |-> o]
Arr(a) == [kind |-> "array", items |-> a]
ModelRef == Obj([model |-> True])
NanoDB == Obj([nano |-> True])

\* typeof: null and arrays are reported as objects.
typeof(x) == IF x.kind \in {"null", "array"} THEN "object" ELSE x.kind

\* ToBoolean for the values above.
Truthy(x) ==
    /\ x.kind \notin {"null", "undefined"}
    /\ ~(x.kind = "number" /\ x.val = "0")
    /\ ~(x.kind = "string" /\ x.val = "")
    /\ ~(x.kind = "boolean" /\ x.val = "false")

EmptyObject == [k \in {} |-> Null]

Has(o, k) == k \in DOMAIN o

\* o[k]: a property that is not there reads as undefined.
Prop(o, k) == IF Has(o, k) THEN o[k] ELSE Undefined

\* node.extend(target, source), shallow: every enumerable property of source
\* whose value is not undefined is assigned to target.
extend(target, source) ==
    LET copied == {k \in DOMAIN source : source[k] # Undefined}
    IN  [k \in DOMAIN target \cup copied |->
            IF k \in copied THEN source[k] ELSE target[k]]

\* delete o[k]
Without(o, ks) == [k \in DOMAIN o \ ks |-> o[k]]

\* o[k] = v
With(o, k, v) == [j \in DOMAIN o \cup {k} |-> IF j = k THEN v ELSE o[j]]

-----------------------------------------------------------------------------
(* Instance *)

\* The enumerable members of Instance.prototype.
InstancePrototype ==
    [ save    |-> Fn("save"),
      delete  |-> Fn("delete"),
      toVO    |-> Fn("toVO"),
      _id     |-> Null,
      _rev    |-> Null,
      _model  |-> Null ]

\* new Instance(model, data)
Instance(data) == extend(With(InstancePrototype, "_model", ModelRef), data)

\* A slot that holds no instance.
Free == [free |-> True]

IsInstance(h) == Has(h, "_model")

\* toVO that keeps the private members.
toVOKeepPrivate(this) ==
    LET kept == {k \in DOMAIN this :
                    /\ this[k] # Undefined
                    /\ typeof(this[k]) # "function"}
        vo == [k \in kept |-> this[k]]
    IN  [vo |-> vo, this |-> this]

\* Instance.prototype.toVO: the value object, and the instance after the call.
toVO(this) ==
    LET copy == extend(EmptyObject, this)
        kept == {k \in DOMAIN copy :
                    ~(\/ typeof(copy[k]) = "function"
                      \/ (Head(k) = "_" /\ k # "_id" /\ k # "_rev"))}
        vo1 == [k \in kept |-> copy[k]]
        vo2 == IF Has(vo1, "_rev") /\ vo1["_rev"] = Null
               THEN Without(vo1, {"_rev"}) ELSE vo1
        vo3 == IF Has(vo2, "_id") /\ vo2["_id"] = Null
               THEN Without(vo2, {"_id"}) ELSE vo2
    IN  [vo |-> vo3, this |-> this]

VO(this) == toVO(this).vo

-----------------------------------------------------------------------------
(* The database behind the nano handle *)

Uuid(n) == "u" \o ToString(n)
Rev(n) == Str(ToString(n) \o "-r")

ChosenIds == {"x"}
DocIds == ChosenIds \cup {Uuid(n) : n \in 1..MaxWrites}

NoDoc == [gen |-> 0, deleted |-> FALSE, doc |-> EmptyObject]

StoreError(code) == [kind |-> "error", val |-> code]
NotFound == StoreError("404")
Conflict == StoreError("409")
Failure == StoreError("500")
BadRequest == StoreError("400")

\* The writes a database has accepted: every write adds one revision.
RECURSIVE SumGen(_, _)
SumGen(st, ids) ==
    IF ids = {} THEN 0
    ELSE LET id == CHOOSE i \in ids : TRUE
         IN  st[id].gen + SumGen(st, ids \ {id})

Writes(st) == SumGen(st, DOMAIN st)

Live(st, id) == id \in DOMAIN st /\ st[id].gen > 0 /\ ~st[id].deleted

\* db.insert(doc): create or update, with the revision check.
Insert(st, uu, doc) ==
    LET id == IF Has(doc, "_id") THEN doc["_id"].val ELSE Uuid(uu + 1)
        cur == st[id]
        ok == IF cur.gen = 0 THEN ~Has(doc, "_rev")
              ELSE IF Has(doc, "_rev") THEN doc["_rev"] = Rev(cur.gen)
              ELSE cur.deleted
        rev == Rev(cur.gen + 1)
        body == With(With(doc, "_id", Str(id)), "_rev", rev)
    IN  IF ok
        THEN [ store |-> [st EXCEPT ![id] =
                            [gen |-> cur.gen + 1, deleted |-> FALSE, doc |-> body]],
               uuids |-> IF Has(doc, "_id") THEN uu ELSE uu + 1,
               error |-> Null,
               body  |-> [ok |-> True, id |-> Str(id), rev |-> rev] ]
        ELSE [ store |-> st, uuids |-> uu, error |-> Conflict, body |-> Undefined ]

\* db.get(id)
Get(st, id) ==
    IF Live(st, id)
    THEN [error |-> Null, body |-> st[id].doc]
    ELSE [error |-> NotFound, body |-> Undefined]

\* db.destroy(id, rev).  A request that names no document is refused.
Destroy(st, id, rev) ==
    IF id.kind # "string"
    THEN [store |-> st, error |-> BadRequest, body |-> Undefined]
    ELSE IF ~Live(st, id.val)
    THEN [store |-> st, error |-> NotFound, body |-> Undefined]
    ELSE IF rev # Rev(st[id.val].gen)
    THEN [store |-> st, error |-> Conflict, body |-> Undefined]
    ELSE [ store |-> [st EXCEPT ![id.val] =
                        [gen |-> @.gen + 1, deleted |-> TRUE, doc |-> EmptyObject]],
           error |-> Null,
           body  |-> [ok |-> True, id |-> id, rev |-> Rev(st[id.val].gen + 1)] ]

-----------------------------------------------------------------------------
(* Calls and completions *)

\* Data the caller creates instances from.
CreateData ==
    { [value |-> Str("hello")],
      [_id |-> Str("x"), value |-> Str("hello"), _secret |-> Str("s"),
       greet |-> Fn("greet"), note |-> Null, password |-> Undefined] }

FieldValues == {Str("hello"), Str("goodbye")}

NoCall == [many |-> FALSE, args |-> <<>>, view |-> {}, fail |-> FALSE]

\* A model constructed without the restapi option has no request handler.
NoOptions == [views |-> {}, restapi |-> Undefined]
NoRequest == [method |-> "none", url |-> "", body |-> Undefined, view |-> {},
              fail |-> FALSE]

NoInvocation == [op |-> "none"]

\* The callers that use one model at a time.
Callers == {"first", "second"}
NoOutcome == [threw |-> "none", callbacks |-> <<>>, promise |-> Undefined]

\* What every model starts with: the handle it was constructed with, and no
\* method called yet.
Constructed(databaseHandle) ==
    /\ db = databaseHandle
    /\ invoked = NoInvocation
    /\ outcome = NoOutcome
    /\ pending = [p \in Callers |-> NoInvocation]

Init ==
    /\ Constructed(NanoDB)
    /\ options = NoOptions
    /\ request = NoRequest
    /\ response = <<>>
    /\ store = [id \in DocIds |-> NoDoc]
    /\ uuids = 0
    /\ handles = [s \in Slots |-> Free]
    /\ sent = <<>>
    /\ delivered = [op |-> "none", slot |-> "none", id |-> Undefined,
                    threw |-> "none", error |-> Null, data |-> Undefined]
    /\ saved = {}
    /\ call = NoCall

\* Model.prototype.create
Create(s, data) ==
    /\ handles[s] = Free
    /\ handles' = [handles EXCEPT ![s] = Instance(data)]
    /\ saved' = saved \ {s}
    /\ UNCHANGED <<store, uuids, sent, delivered, call, rest>>

\* instance.value = v
SetField(s, v) ==
    /\ IsInstance(handles[s])
    /\ Prop(handles[s], "value") # v
    /\ handles' = [handles EXCEPT ![s] = With(@, "value", v)]
    /\ saved' = saved \ {s}
    /\ UNCHANGED <<store, uuids, sent, delivered, call, rest>>


\* What a call delivers to callback(error, data).
Deliver(op, slot, id, error, data) ==
    [ op |-> op, slot |-> slot, id |-> id, threw |-> "none",
      error |-> error, data |-> data ]

\* A call that ends with an exception before anything is requested.
Throw(op, slot, id, what) ==
    [ op |-> op, slot |-> slot, id |-> id, threw |-> what,
      error |-> Undefined, data |-> Undefined ]

\* The promise form, Q.ninvoke(this, op, ...): the same call with Q's node
\* callback, which rejects with the error or fulfils with the data.
Settled(d) ==
    IF d.error # Null
    THEN [state |-> "rejected", reason |-> d.error, value |-> Undefined]
    ELSE [state |-> "fulfilled", reason |-> Undefined, value |-> d.data]

\* Model.prototype.save: the request made on the database handle.
ModelSave(instance) == [method |-> "insert", doc |-> VO(instance)]

\* Model.prototype.delete: the request made on the database handle.
ModelDelete(instance) ==
    [method |-> "destroy", id |-> instance["_id"], rev |-> instance["_rev"]]

\* Instance.prototype.save's completion that takes over the id only.
SaveCompletedIdOnly(this, error, body) ==
    IF error # Null THEN this ELSE With(this, "_id", body.id)

\* Instance.prototype.save's completion that assigns from the body on errors too.
SaveCompletedAlways(this, error, body) ==
    IF error # Null
    THEN With(With(this, "_rev", Undefined), "_id", Undefined)
    ELSE With(With(this, "_rev", body.rev), "_id", body.id)

\* Instance.prototype.save, the completion of this._model.save: the instance
\* afterwards.
SaveCompleted(this, error, body) ==
    IF error # Null
    THEN this
    ELSE With(With(this, "_rev", body.rev), "_id", body.id)

\* Instance.prototype.delete's completion that keeps the id.
DeleteCompletedKeepId(this, error) ==
    IF error # Null THEN this ELSE With(this, "_rev", Null)

\* Instance.prototype.delete, the completion of this._model.delete: the
\* instance afterwards.
DeleteCompleted(this, error) ==
    IF error # Null
    THEN this
    ELSE With(With(this, "_id", Null), "_rev", Null)

\* findOneByID's completion that builds an instance whatever the outcome.
FindOneByIDCompletedAlways(error, data) ==
    [error |-> error, data |-> Instance(IF error # Null THEN EmptyObject ELSE data)]

\* Model.prototype.findOneByID, the completion of this._db.get.
FindOneByIDCompleted(error, data) ==
    IF error # Null
    THEN [error |-> error, data |-> Null]
    ELSE [error |-> Null, data |-> Instance(data)]

\* The document id an insert request is about.
TargetId(doc) == IF Has(doc, "_id") THEN doc["_id"].val ELSE Uuid(uuids + 1)

\* The slots whose instance carries the id of the document a call has written.
Holding(id) == {t \in Slots : IsInstance(handles[t]) /\ handles[t]["_id"] = id}

\* The properties of a value object other than the id and the revision.
Fields(vo) == Without(vo, {"_id", "_rev"})

\* Instance.prototype.save with the database's answer.
Save(s, fail) ==
    LET this == handles[s]
        req == ModelSave(this)
        r == IF fail
             THEN [store |-> store, uuids |-> uuids, error |-> Failure,
                   body |-> Undefined]
             ELSE Insert(store, uuids, req.doc)
    IN  /\ IsInstance(this)
        /\ TargetId(req.doc) \in DocIds
        /\ Writes(r.store) <= MaxWrites
        /\ store' = r.store
        /\ uuids' = r.uuids
        /\ sent' = <<req>>
        /\ handles' = [handles EXCEPT ![s] = SaveCompleted(this, r.error, r.body)]
        /\ delivered' = Deliver("save", s, Undefined, r.error, Undefined)
        /\ saved' = IF r.error = Null
                    THEN (saved \ Holding(r.body.id)) \cup {s}
                    ELSE saved
        /\ UNCHANGED <<call, rest>>

\* Instance.prototype.delete with the database's answer.
Delete(s, fail) ==
    LET this == handles[s]
        req == ModelDelete(this)
        r == IF fail
             THEN [store |-> store, error |-> Failure, body |-> Undefined]
             ELSE Destroy(store, req.id, req.rev)
    IN  /\ IsInstance(this)
        /\ req.id.kind = "string" => req.id.val \in DocIds
        /\ Writes(r.store) <= MaxWrites
        /\ store' = r.store
        /\ sent' = <<req>>
        /\ handles' = [handles EXCEPT ![s] = DeleteCompleted(this, r.error)]
        /\ delivered' = Deliver("delete", s, Undefined, r.error, Undefined)
        /\ saved' = IF r.error = Null THEN saved \ Holding(req.id) ELSE saved
        /\ UNCHANGED <<uuids, call, rest>>

\* The ids findOneByID is called with.
AskedIds == {Str(id) : id \in DocIds} \cup {Null}

\* Model.prototype.findOneByID with the database's answer; the caller keeps the
\* instance in the variable dest, or in none.
FindOneByID(id, dest, fail) ==
    /\ UNCHANGED <<store, uuids, call, rest>>
    /\ IF ~Truthy(id)
       THEN /\ delivered' = Throw("findOneByID", dest, id, "ID is missing")
            /\ sent' = <<>>
            /\ UNCHANGED <<handles, saved>>
       ELSE LET a == IF fail THEN [error |-> Failure, body |-> Undefined]
                     ELSE Get(store, id.val)
                r == FindOneByIDCompleted(a.error, a.body)
            IN  /\ sent' = <<[method |-> "get", id |-> id]>>
                /\ delivered' = Deliver("findOneByID", dest, id, r.error, r.data)
                /\ IF dest \in Slots /\ IsInstance(r.data)
                   THEN /\ handles' = [handles EXCEPT ![dest] = r.data]
                        /\ saved' = saved \ {dest}
                   ELSE UNCHANGED <<handles, saved>>

\* Instance.prototype.toVO called by the caller.
ToVO(s) ==
    LET r == toVO(handles[s])
    IN  /\ IsInstance(handles[s])
        /\ handles' = [handles EXCEPT ![s] = r.this]
        /\ delivered' = Deliver("toVO", s, Undefined, Null, r.vo)
        /\ sent' = <<>>
        /\ UNCHANGED <<store, uuids, saved, call, rest>>

Next ==
    \/ \E s \in Creators, data \in CreateData : Create(s, data)
    \/ \E s \in Slots, v \in FieldValues : SetField(s, v)
    \/ \E s \in Slots, fail \in BOOLEAN : Save(s, fail)
    \/ \E s \in Slots, fail \in BOOLEAN : Delete(s, fail)
    \/ \E id \in AskedIds, dest \in Keepers \cup {"none"}, fail \in BOOLEAN :
          FindOneByID(id, dest, fail)
    \/ \E s \in Slots : ToVO(s)

Spec == Init /\ [][Next]_vars

-----------------------------------------------------------------------------
(* Document lifecycle *)

IsFound(d) == d.op = "findOneByID" /\ d.threw = "none" /\ d.error = Null

\* C1: after a successful save of an instance (a first save, with or without
\* an id of the caller's choosing, or a later save after fields were changed in
\* place, no other call having written the document since), findOneByID on the
\* instance's _id delivers an instance whose value object, _id and _rev
\* included, equals the value object of the saved instance.
C1_FindAfterSave ==
    \A s \in saved :
        (IsFound(delivered) /\ delivered.id = handles[s]["_id"])
            => VO(delivered.data) = VO(handles[s])

\* A first save under a chosen id, of an instance with private and function
\* members, has been read back.
C1_Witness ==
    /\ IsFound(delivered)
    /\ "a" \in saved
    /\ delivered.id = handles["a"]["_id"]
    /\ Has(handles["a"], "_secret")
    /\ handles["a"]["_id"] = Str("x")

\* A save under an id the database assigned has been read back.
C1_WitnessAutomaticId ==
    /\ IsFound(delivered)
    /\ "a" \in saved
    /\ delivered.id = handles["a"]["_id"]
    /\ handles["a"]["_id"] = Str(Uuid(1))

\* A later save, after a field was changed in place, has been read back.
C1_WitnessUpdate ==
    /\ IsFound(delivered)
    /\ "a" \in saved
    /\ delivered.id = handles["a"]["_id"]
    /\ handles["a"]["_rev"] = Rev(2)
    /\ handles["a"]["value"] = Str("goodbye")

\* The instance in s carries a revision other than the stored one of its
\* document.
Stale(s) ==
    /\ IsInstance(handles[s])
    /\ handles[s]["_id"].kind = "string"
    /\ handles[s]["_rev"].kind = "string"
    /\ Live(store, handles[s]["_id"].val)
    /\ handles[s]["_rev"] # Rev(store[handles[s]["_id"].val].gen)

\* C2: save() on an instance whose _rev is not the stored revision of its
\* document fails with the database's conflict error, and changes neither the
\* stored documents nor the instance's _id and _rev.
C2_StaleSaveConflicts ==
    [][\A s \in Slots :
          (Stale(s) /\ Save(s, FALSE)) =>
              /\ delivered'.error = Conflict
              /\ Settled(delivered').state = "rejected"
              /\ store' = store
              /\ handles'[s]["_id"] = handles[s]["_id"]
              /\ handles'[s]["_rev"] = handles[s]["_rev"]]_vars

\* The instance in a was saved, read into b and saved from there, and the
\* save of a that followed was refused.
C2_Witness ==
    /\ delivered.op = "save" /\ delivered.slot = "a"
    /\ delivered.error = Conflict
    /\ Stale("a")
    /\ handles["b"]["_id"] = handles["a"]["_id"]
    /\ handles["b"]["_rev"] = Rev(store[handles["a"]["_id"].val].gen)

\* C3: findOneByID on the id of a document that an instance's delete() has
\* removed fails with the database's not-found error and delivers no instance,
\* through the callback and through the promise.
C3_FindAfterDelete ==
    [][\A id \in AskedIds, dest \in Keepers \cup {"none"} :
          (/\ id.kind = "string"
           /\ store[id.val].deleted
           /\ FindOneByID(id, dest, FALSE)) =>
              /\ delivered'.error = NotFound
              /\ delivered'.data = Null
              /\ Settled(delivered').state = "rejected"
              /\ Settled(delivered').reason = NotFound
              /\ handles' = handles]_vars

\* The instance in a was deleted and its former id has been asked for.
C3_Witness ==
    /\ delivered.op = "findOneByID"
    /\ delivered.id = Str("x")
    /\ store["x"].deleted
    /\ IsInstance(handles["a"]) /\ handles["a"]["_id"] = Null
    /\ delivered.error = NotFound

\* C4: a successful delete() leaves the instance with _id and _rev null, and
\* a save() of an instance whose _id and _rev are null sends a document with
\* neither, which the database stores as a new document under an id it
\* assigns, leaving every other document as it was.
C4_SaveAfterDelete ==
    [][\A s \in Slots :
          /\ (Delete(s, FALSE) /\ delivered'.error = Null) =>
                /\ handles'[s]["_id"] = Null
                /\ handles'[s]["_rev"] = Null
                /\ Fields(VO(handles'[s])) = Fields(VO(handles[s]))
          /\ (/\ IsInstance(handles[s])
              /\ handles[s]["_id"] = Null /\ handles[s]["_rev"] = Null
              /\ Save(s, FALSE)) =>
                /\ ~Has(sent'[1].doc, "_id") /\ ~Has(sent'[1].doc, "_rev")
                /\ delivered'.error = Null
                /\ handles'[s]["_id"] = Str(Uuid(uuids + 1))
                /\ store[Uuid(uuids + 1)].gen = 0
                /\ Live(store', Uuid(uuids + 1))
                /\ \A id \in DocIds \ {Uuid(uuids + 1)} : store'[id] = store[id]]_vars

\* The instance in a was saved as x, deleted, and saved again: x stays
\* deleted and the instance has the id of a new document.
C4_Witness ==
    /\ delivered.op = "save" /\ delivered.slot = "a" /\ delivered.error = Null
    /\ store["x"].deleted
    /\ Has(handles["a"], "_secret")
    /\ handles["a"]["_id"] = Str(Uuid(1))
    /\ Live(store, Uuid(1))

InvalidState == StoreError("InvalidState")

\* C5: delete() on an instance whose _id is null is rejected with an invalid
\* state error and makes no request on the database handle.
C5_DeleteWithoutId ==
    (/\ delivered.op = "delete"
     /\ delivered.error # Null
     /\ handles[delivered.slot]["_id"] = Null) =>
        /\ delivered.error = InvalidState
        /\ sent = <<>>

\* C6: toVO() returns an object without a key that starts with '_' other than
\* _id and _rev, without a function member and without a null _id or _rev,
\* and leaves the instance's own properties as they were.
C6_ToVO ==
    [][\A s \in Slots :
          ToVO(s) =>
              /\ handles' = handles
              /\ \A k \in DOMAIN delivered'.data :
                    /\ Head(k) = "_" => k \in {"_id", "_rev"}
                    /\ typeof(delivered'.data[k]) # "function"
                    /\ k \in {"_id", "_rev"} => delivered'.data[k] # Null]_vars

\* toVO() was called on a never saved instance with a private member and a
\* function member.
C6_Witness ==
    /\ delivered.op = "toVO"
    /\ Has(handles[delivered.slot], "_secret")
    /\ Has(handles[delivered.slot], "greet")
    /\ handles[delivered.slot]["_rev"] = Null
    /\ Has(delivered.data, "value")

-----------------------------------------------------------------------------
(* View methods *)

Callback == Fn("callback")

\* The i-th argument of a call; a missing argument reads as undefined.
Arg(args, i) == IF i <= Len(args) THEN args[i] ELSE Undefined

\* callback = arguments.find(e => typeof e === 'function')
FindCallback(args) ==
    IF \E i \in 1..Len(args) : typeof(args[i]) = "function"
    THEN args[CHOOSE i \in 1..Len(args) :
                /\ typeof(args[i]) = "function"
                /\ \A j \in 1..(i - 1) : typeof(args[j]) # "function"]
    ELSE Undefined

\* The find(startkey, endkey, ...) branch with the slots of findMany for
\* findOne too.
PositionalParamsSameSlots(many, startkey, endkey, sort, limit, skip0) ==
    LET p1 == IF ~Truthy(endkey) \/ typeof(endkey) = "function"
              THEN [key |-> startkey]
              ELSE [startkey |-> startkey, endkey |-> endkey]
        p2 == IF Truthy(sort) /\ sort = Str("dsc")
              THEN With(With(With(p1, "descending", True),
                             "startkey", endkey), "endkey", startkey)
              ELSE p1
        p3 == IF Truthy(limit) /\ typeof(limit) # "function"
              THEN With(p2, "limit", limit) ELSE p2
    IN  IF Truthy(skip0) /\ typeof(skip0) # "function"
        THEN With(p3, "skip", skip0) ELSE p3

\* createViewMethod, the find(startkey, endkey, ...) branch: the parameter
\* object built from the positional arguments.
PositionalParams(many, startkey, endkey, sort, limit, skip0) ==
    LET p1 == IF ~Truthy(endkey) \/ typeof(endkey) = "function"
              THEN [key |-> startkey]
              ELSE [startkey |-> startkey, endkey |-> endkey]
        skip == IF many THEN skip0 ELSE limit
        p2 == IF Truthy(sort) /\ sort = Str("dsc")
              THEN With(With(With(p1, "descending", True),
                             "startkey", endkey), "endkey", startkey)
              ELSE p1
        p3 == IF Truthy(limit) /\ typeof(limit) # "function"
              THEN With(p2, "limit", limit) ELSE p2
    IN  IF Truthy(skip) /\ typeof(skip) # "function"
        THEN With(p3, "skip", skip) ELSE p3

\* A view method that takes every call as a positional one.
createViewMethodPositional(many, args) ==
    [ threw |-> "none", many |-> many,
      params |-> PositionalParams(many, Arg(args, 1), Arg(args, 2), Arg(args, 3),
                                  Arg(args, 4), Arg(args, 5)),
      callback |-> FindCallback(args) ]

\* The function createViewMethod(view, many) returns, up to the call of
\* findManyByView or findOneByView.
createViewMethod(many, args) ==
    LET startkey == Arg(args, 1)
        endkey == Arg(args, 2)
        given == IF startkey = Null /\ typeof(endkey) = "object"
                 THEN endkey ELSE Undefined
    IN  IF startkey = Null /\ typeof(endkey) # "object"
        THEN [ threw |-> "ReferenceError: error is not defined", many |-> many,
               params |-> EmptyObject, callback |-> FindCallback(args) ]
        ELSE [ threw |-> "none", many |-> many,
               params |-> IF Truthy(given)
                          THEN given.members
                          ELSE PositionalParams(many, startkey, endkey, Arg(args, 3),
                                                Arg(args, 4), Arg(args, 5)),
               callback |-> FindCallback(args) ]

\* findOneByView that lets the caller's limit stand.
findOneByViewParamsCallerFirst(params) ==
    extend([limit |-> Num(1)], params)

\* Model.prototype.findOneByView: _params = extend({}, params, { limit: 1 })
findOneByViewParams(params) ==
    extend(extend(EmptyObject, params), [limit |-> Num(1)])

\* Model.prototype.findManyByView, the completion of this._db.get.
findManyByViewCompleted(error, rows) ==
    IF error # Null
    THEN [error |-> error, data |-> Undefined]
    ELSE [error |-> Null,
          data |-> Arr([i \in 1..Len(rows) |-> Instance(rows[i].value)])]

\* findOneByView's completion that hands on what findManyByView delivered.
findOneByViewCompletedAll(error, results) ==
    IF error # Null
    THEN [error |-> error, data |-> Undefined]
    ELSE [error |-> Null, data |-> results]

\* Model.prototype.findOneByView, the completion of this.findManyByView.
findOneByViewCompleted(error, results) ==
    IF error # Null
    THEN [error |-> error, data |-> Undefined]
    ELSE [error |-> Null,
          data |-> IF Len(results.items) > 0 THEN results.items[1] ELSE Null]

ViewPath == "_design/article/_view/by_date"

\* Parameter objects a caller passes as find(null, params).
ParamObjects ==
    { [startkey |-> Str("a"), endkey |-> Str("b"), limit |-> Num(5)],
      [key |-> Str("a")] }

StartKeys == {Null, Num(-1), Str("a")}
EndKeys == {Undefined, Null, Str("b"), Num(0)} \cup {Obj(o) : o \in ParamObjects}
Sorts == {Undefined, Str("asc"), Str("dsc")}
Limits == {Undefined, Num(2)}
Skips == {Undefined, Num(1)}

\* The arguments of a call: the values given, up to the last one that is not
\* undefined, and the callback after them if the caller passes one.
Arguments(t, cb) ==
    LET n == CHOOSE m \in 0..Len(t) :
                /\ m = 0 \/ t[m] # Undefined
                /\ \A j \in (m + 1)..Len(t) : t[j] = Undefined
    IN  SubSeq(t, 1, n) \o (IF cb THEN <<Callback>> ELSE <<>>)

\* The keys of the view's rows, in the order the view collates them.
ViewKeys == <<Num(-1), Num(0), Str("a"), Str("b")>>

\* The place of a value in the view's collation: null before every key,
\* numbers before strings, objects after every key.
Rank(k) ==
    IF k = Null THEN 0
    ELSE IF \E i \in 1..Len(ViewKeys) : ViewKeys[i] = k
    THEN CHOOSE i \in 1..Len(ViewKeys) : ViewKeys[i] = k
    ELSE Len(ViewKeys) + 1

\* The row the view emits for the document with the i-th key.
ViewRow(i) ==
    [ id |-> Str(ToString(i)), key |-> ViewKeys[i],
      value |-> [_id |-> Str(ToString(i)), _rev |-> Rev(1), date |-> ViewKeys[i]] ]

\* What the view can hold: a view is the set of the places of its rows' keys.
Views == SUBSET (1..Len(ViewKeys))

RECURSIVE Ascending(_)
Ascending(places) ==
    IF places = {} THEN <<>>
    ELSE LET least == CHOOSE i \in places : \A j \in places : i <= j
         IN  <<ViewRow(least)>> \o Ascending(places \ {least})

Reverse(rows) == [i \in 1..Len(rows) |-> rows[Len(rows) + 1 - i]]

\* The number a limit or skip parameter stands for; 0 when it is not given.
NumVal(v) ==
    IF v.kind = "number" /\ \E n \in 0..9 : ToString(n) = v.val
    THEN CHOOSE n \in 0..9 : ToString(n) = v.val
    ELSE 0

\* db.get(viewPath, params): the rows the view answers a query with.  A
\* parameter whose value is undefined is not part of the query string; key
\* sets both ends of the range and a startkey or endkey after it replaces one
\* end; with descending the range runs from startkey down to endkey; a range
\* whose start lies behind its end is refused.
QueryView(view, params) ==
    LET Or(a, b) == IF a # Undefined THEN a ELSE b
        Least(m, n) == IF m < n THEN m ELSE n
        InRange(lo, hi) ==
            {i \in view : /\ lo = Undefined \/ Rank(lo) <= i
                          /\ hi = Undefined \/ i <= Rank(hi)}
        Ordered(places, descending) ==
            IF descending THEN Reverse(Ascending(places)) ELSE Ascending(places)
        Skipped(rows, skip) == SubSeq(rows, skip + 1, Len(rows))
        Limited(rows, limit) ==
            IF limit.kind = "number"
            THEN SubSeq(rows, 1, Least(NumVal(limit), Len(rows)))
            ELSE rows
        Range(lo, hi, descending, skip, limit) ==
            IF lo # Undefined /\ hi # Undefined /\ Rank(lo) > Rank(hi)
            THEN [error |-> BadRequest, rows |-> <<>>]
            ELSE [error |-> Null,
                  rows |-> Limited(Skipped(Ordered(InRange(lo, hi), descending),
                                           NumVal(skip)), limit)]
        Ends(startkey, endkey, descending, skip, limit) ==
            Range(IF descending THEN endkey ELSE startkey,
                  IF descending THEN startkey ELSE endkey,
                  descending, skip, limit)
        Keys(key, startkey, endkey, descending, skip, limit) ==
            Ends(Or(startkey, key), Or(endkey, key), descending, skip, limit)
    IN  Keys(Prop(params, "key"), Prop(params, "startkey"), Prop(params, "endkey"),
             Prop(params, "descending") = True, Prop(params, "skip"),
             Prop(params, "limit"))

\* A call of findManyBy{View} (many) or findOneBy{View}, from the arguments
\* to what is delivered, over a view with the given rows; fail: the database
\* fails to answer.
ViewOutcome(many, args, view, fail) ==
    LET Query(m) == IF many THEN m.params ELSE findOneByViewParams(m.params)
        Answer(q) == IF fail THEN [error |-> Failure, rows |-> <<>>]
                     ELSE QueryView(view, q)
        Found(answer) == findManyByViewCompleted(answer.error, answer.rows)
        Out(res) == IF many THEN res ELSE findOneByViewCompleted(res.error, res.data)
        Outcome(m, q, out) ==
            IF m.threw # "none"
            THEN [threw |-> m.threw, sent |-> <<>>, error |-> Undefined,
                  data |-> Undefined]
            ELSE [threw |-> "none",
                  sent |-> <<[method |-> "get", path |-> ViewPath, params |-> q]>>,
                  error |-> out.error, data |-> out.data]
        Sent(m, q) == Outcome(m, q, Out(Found(Answer(q))))
        Made(m) == Sent(m, Query(m))
    IN  Made(createViewMethod(many, args))

\* A call of findManyBy{View} (many) or findOneBy{View} with the database's
\* answer.
ViewCall(many, args, view, fail) ==
    LET op == IF many THEN "findMany" ELSE "findOne"
        Completed(r) ==
            /\ call = NoCall
            /\ call' = [many |-> many, args |-> args, view |-> view, fail |-> fail]
            /\ sent' = r.sent
            /\ delivered' = IF r.threw # "none"
                            THEN Throw(op, "none", Undefined, r.threw)
                            ELSE Deliver(op, "none", Undefined, r.error, r.data)
            /\ UNCHANGED <<store, uuids, handles, saved, rest>>
    IN  Completed(ViewOutcome(many, args, view, fail))

\* One call is followed in each behaviour.
NextView ==
    /\ call = NoCall
    /\ \E many \in BOOLEAN, startkey \in StartKeys, endkey \in EndKeys,
          sort \in Sorts, limit \in Limits, skip \in Skips, cb \in BOOLEAN,
          view \in Views, fail \in BOOLEAN :
            ViewCall(many, Arguments(<<startkey, endkey, sort, limit, skip>>, cb),
                     view, fail)

SpecView == Init /\ [][NextView]_vars

\* A call was made, and these are its arguments.
Called == call # NoCall
Arg1 == Arg(call.args, 1)
Arg2 == Arg(call.args, 2)
Arg3 == Arg(call.args, 3)

\* A value given as a bound of a key range.
IsBound(v) == v.kind \in {"string", "number"}

\* C7: a positional call with both bounds given and sort "asc" or no sort
\* queries with startkey the first bound, endkey the second and no descending
\* flag; with sort "dsc" it queries with startkey the second bound, endkey the
\* first and descending true.
C7_RangeAndSwap ==
    (/\ Called
     /\ IsBound(Arg1) /\ IsBound(Arg2)
     /\ typeof(Arg3) = "function" \/ Arg3 \in Sorts) =>
        /\ Len(sent) = 1
        /\ LET q == sent[1].params
           IN  IF Arg3 = Str("dsc")
               THEN /\ Prop(q, "startkey") = Arg2
                    /\ Prop(q, "endkey") = Arg1
                    /\ Prop(q, "descending") = True
               ELSE /\ Prop(q, "startkey") = Arg1
                    /\ Prop(q, "endkey") = Arg2
                    /\ ~Has(q, "descending")

\* C8: a positional call whose endkey is absent, or is the callback, queries
\* with key the startkey and with neither startkey nor endkey, whatever sort
\* is; no positional call queries with key together with startkey or endkey.
C8_ExactMatch ==
    (Called /\ Arg1 # Null) =>
        /\ Len(sent) = 1
        /\ LET q == sent[1].params
           IN  /\ (Arg2 = Undefined \/ typeof(Arg2) = "function") =>
                      /\ Prop(q, "key") = Arg1
                      /\ ~Has(q, "startkey") /\ ~Has(q, "endkey")
               /\ ~(Has(q, "key") /\ (Has(q, "startkey") \/ Has(q, "endkey")))

\* C9: a call with null as first argument and a second argument that is not
\* an object other than null ends with an exception before anything is
\* requested from the database.
C9_IllegalInvocation ==
    (Called /\ Arg1 = Null /\ Arg2.kind # "object") =>
        /\ delivered.threw # "none"
        /\ sent = <<>>

\* C10: findManyBy{View}(null, params) with an object params queries the view
\* with exactly that object.
C10_ParamsPassThrough ==
    (Called /\ call.many /\ Arg1 = Null /\ Arg2.kind = "object") =>
        sent = <<[method |-> "get", path |-> ViewPath, params |-> Arg2.members]>>

\* findManyBy{View}(null, params, undefined, 2) was called with a params
\* object that has its own limit, and the rows were delivered.
C10_Witness ==
    /\ Called /\ call.many
    /\ Arg1 = Null /\ Arg2.kind = "object"
    /\ Has(Arg2.members, "limit")
    /\ Arg(call.args, 4) = Num(2)
    /\ delivered.op = "findMany" /\ delivered.error = Null
    /\ Len(delivered.data.items) = 2

\* The arguments of the call before the callback.
Given == SelectSeq(call.args, LAMBDA a : typeof(a) # "function")

\* C11: every findOneBy{View} call that queries the view queries it with
\* limit 1, whether the arguments are positional or a params object, and also
\* when they carry another limit.
C11_FindOneLimit ==
    (Called /\ ~call.many /\ delivered.threw = "none") =>
        /\ Len(sent) = 1
        /\ Prop(sent[1].params, "limit") = Num(1)

\* findOneBy{View}(null, params) was called with a params object whose limit
\* is 5.
C11_Witness ==
    /\ Called /\ ~call.many
    /\ Arg1 = Null /\ Arg2.kind = "object"
    /\ Prop(Arg2.members, "limit") = Num(5)
    /\ Len(sent) = 1

\* findOneBy{View}("a", "b", "asc", 2) was called: a positional call with a
\* number in the fourth place.
C11_WitnessPositional ==
    /\ Called /\ ~call.many
    /\ Arg1 = Str("a") /\ Arg2 = Str("b")
    /\ Arg(call.args, 4) = Num(2)
    /\ Len(sent) = 1

C12_WitnessNoMatch ==
    /\ Called /\ ~call.many /\ ~call.fail
    /\ Given = <<Str("a")>>
    /\ Rank(Str("a")) \notin call.view
    /\ delivered.error = Null /\ delivered.data = Null

\* C13: for bounds a <= b in the view's order, findManyBy{View}(a, b, "dsc")
\* delivers the instances that findManyBy{View}(a, b, "asc") delivers over the
\* same view, in the reverse order.
C13_DescendingIsReverse ==
    (/\ Called /\ call.many /\ ~call.fail
     /\ Len(Given) = 3 /\ Arg3 = Str("dsc")
     /\ IsBound(Arg1) /\ IsBound(Arg2)
     /\ Rank(Arg1) <= Rank(Arg2)) =>
        LET asc == ViewOutcome(TRUE, <<Arg1, Arg2, Str("asc")>>, call.view, FALSE)
        IN  /\ delivered.threw = "none"
            /\ delivered.error = Null /\ asc.error = Null
            /\ delivered.data.items = Reverse(asc.data.items)

\* C14: findOneBy{View}(startkey, endkey, sort, n) queries with skip n and
\* limit 1 whatever is in the fifth place; findManyBy{View}(startkey, endkey,
\* sort, n, m) queries with limit n and skip m.
C14_LimitSkipSlots ==
    (Called /\ Arg1 # Null /\ Arg(Given, 4) \in Limits \ {Undefined}) =>
        /\ Len(sent) = 1
        /\ IF call.many
           THEN /\ Prop(sent[1].params, "limit") = Arg(Given, 4)
                /\ Prop(sent[1].params, "skip") = Arg(Given, 5)
           ELSE /\ Prop(sent[1].params, "limit") = Num(1)
                /\ Prop(sent[1].params, "skip") = Arg(Given, 4)

\* findOneBy{View}("a", "b", "asc", 2, 1) was called: the fifth place holds
\* another number than the fourth.
C14_Witness ==
    /\ Called /\ ~call.many
    /\ Given = <<Str("a"), Str("b"), Str("asc"), Num(2), Num(1)>>
    /\ Len(sent) = 1

\* findManyBy{View}("a", "b", "asc", 2, 1) was called.
C14_WitnessMany ==
    /\ Called /\ call.many
    /\ Given = <<Str("a"), Str("b"), Str("asc"), Num(2), Num(1)>>
    /\ Len(sent) = 1

-----------------------------------------------------------------------------
(* The request handler *)

\* The members every plain object inherits from Object.prototype.
ObjectPrototype ==
    { "constructor", "hasOwnProperty", "isPrototypeOf", "propertyIsEnumerable",
      "toLocaleString", "toString", "valueOf" }

\* o[k] on a plain object: an own property, or else an inherited one.
Lookup(o, k) ==
    IF Has(o, k) THEN o[k]
    ELSE IF k \in ObjectPrototype THEN Fn(k)
    ELSE Undefined

Letters == "abcdefghijklmnopqrstuvwxyz"
Capitals == "ABCDEFGHIJKLMNOPQRSTUVWXYZ"

toUpperCase(c) ==
    IF \E i \in 1..Len(Letters) : SubSeq(Letters, i, i) = c
    THEN LET i == CHOOSE j \in 1..Len(Letters) : SubSeq(Letters, j, j) = c
         IN  SubSeq(Capitals, i, i)
    ELSE c

\* underscore.string camelize: every run of '-', '_' and ' ' is removed and
\* the character after it is put in upper case.
RECURSIVE camelize(_)
camelize(str) ==
    IF str = "" THEN ""
    ELSE IF Head(str) \in {"-", "_", " "}
    THEN LET after == Tail(str)
         IN  IF after = "" THEN ""
             ELSE IF Head(after) \in {"-", "_", " "} THEN camelize(after)
             ELSE toUpperCase(Head(after)) \o camelize(Tail(after))
    ELSE Head(str) \o camelize(Tail(str))

\* str.split(sep) for a separator of one character.
RECURSIVE SplitFrom(_, _, _)
SplitFrom(str, sep, piece) ==
    IF str = "" THEN <<piece>>
    ELSE IF Head(str) = sep THEN <<piece>> \o SplitFrom(Tail(str), sep, "")
    ELSE SplitFrom(Tail(str), sep, piece \o Head(str))

split(str, sep) == SplitFrom(str, sep, "")

\* new RegExp('^' + pattern) matches at the start of str, for a pattern of
\* plain characters and '.', which stands for any character.
RECURSIVE MatchesStart(_, _)
MatchesStart(str, pattern) ==
    IF pattern = "" THEN TRUE
    ELSE IF str = "" THEN FALSE
    ELSE /\ Head(pattern) = "." \/ Head(pattern) = Head(str)
         /\ MatchesStart(Tail(str), Tail(pattern))

\* A prefix that is taken off every path.
ReplacePrefixAlways(path, prefix) ==
    SubSeq(path, Len(prefix) + 1, Len(path))

\* path.replace(new RegExp('^' + prefix), '')
ReplacePrefix(path, prefix) ==
    IF MatchesStart(path, prefix)
    THEN SubSeq(path, Len(prefix) + 1, Len(path))
    ELSE path

\* str.replace(prefix, '') for a str that starts with prefix.
StripPrefix(path, prefix) ==
    IF Len(prefix) <= Len(path) /\ SubSeq(path, 1, Len(prefix)) = prefix
    THEN SubSeq(path, Len(prefix) + 1, Len(path))
    ELSE path

\* path.match(/^\/[^\/]+$/)
IsSegment(path) ==
    /\ Len(path) >= 2
    /\ Head(path) = "/"
    /\ \A i \in 2..Len(path) : SubSeq(path, i, i) # "/"

\* querystring.parse for a query without escapes and repeated names: every
\* value is a string.
parse(query) ==
    LET pairs == IF query = "" THEN <<>> ELSE split(query, "&")
        Name(i) == split(pairs[i], "=")[1]
        Value(i) == IF Len(split(pairs[i], "=")) > 1
                    THEN split(pairs[i], "=")[2] ELSE ""
    IN  [k \in {Name(i) : i \in 1..Len(pairs)} |->
            Str(Value(CHOOSE i \in 1..Len(pairs) : Name(i) = k))]

\* The views the model is constructed with (options.views), by name.
ConfiguredViews == {"by_date"}

\* The functions Model.prototype gives every model.
ModelPrototype ==
    { "create", "save", "delete", "findAll", "findOneByID", "findManyByView",
      "findOneByView" }

\* The methods the constructor generates for the views.
ViewMethods(opts) ==
    {"findOne" \o camelize("_" \o name) : name \in opts.views}
        \cup {"findMany" \o camelize("_" \o name) : name \in opts.views}

\* typeof model[methodName]
ModelMember(opts, methodName) ==
    IF methodName \in ViewMethods(opts) \cup ModelPrototype \cup ObjectPrototype
    THEN "function" ELSE "undefined"

\* db.list({ include_docs: true }): the documents in the order of their ids.
ListOrder == [i \in 1..MaxWrites |-> Uuid(i)] \o <<"x">>

List(st) ==
    LET ids == SelectSeq(ListOrder, LAMBDA id : Live(st, id))
    IN  [i \in 1..Len(ids) |-> [id |-> Str(ids[i]), doc |-> st[ids[i]].doc]]

\* Model.prototype.findAll, the completion of this._db.list.
findAllCompleted(error, rows) ==
    IF error # Null
    THEN [error |-> error, data |-> Null]
    ELSE [error |-> Null,
          data |-> Arr([i \in 1..Len(rows) |-> Instance(rows[i].doc)])]

\* A result that is written as it was delivered.
MapToNothing(result) == result

\* result.map(function(e) { return e.toVO(); })
MapToVO(result) == Arr([i \in 1..Len(result.items) |-> VO(result.items[i])])

\* respondError: the status written and the JSON body, in which a reason
\* that is undefined does not appear.
respondError(code, reason) ==
    [ status |-> code,
      body |-> Obj(extend([error |-> Num(code)], [reason |-> reason])) ]

\* respondResult(body): code 200.
respondResult(body) == [status |-> 200, body |-> body]

\* What a request comes to: the responses written, the requests made on the
\* database handle, the database afterwards.
Handled(st, uu, responses, requests) ==
    [response |-> responses, sent |-> requests, store |-> st, uuids |-> uu]

\* onRequest, GET / answering without a look at the index flag.
RouteIndexOpen(opts, st, uu, req) ==
    LET requests == <<[method |-> "list", params |-> [include_docs |-> True]]>>
        Respond(r) ==
            IF r.error # Null
            THEN Handled(st, uu, <<respondError(500, Str("Database Error"))>>, requests)
            ELSE Handled(st, uu, <<respondResult(MapToVO(r.data))>>, requests)
    IN  Respond(IF req.fail THEN findAllCompleted(Failure, <<>>)
                ELSE findAllCompleted(Null, List(st)))

\* onRequest, GET /: the index.
RouteIndex(opts, st, uu, req) ==
    LET requests == <<[method |-> "list", params |-> [include_docs |-> True]]>>
        Respond(r) ==
            IF ~Truthy(Lookup(opts.restapi.members, "index"))
            THEN Handled(st, uu, <<respondError(403, Str("Indexing Not Allowed"))>>, <<>>)
            ELSE IF r.error # Null
            THEN Handled(st, uu, <<respondError(500, Str("Database Error"))>>, requests)
            ELSE Handled(st, uu, <<respondResult(MapToVO(r.data))>>, requests)
    IN  Respond(IF req.fail THEN findAllCompleted(Failure, <<>>)
                ELSE findAllCompleted(Null, List(st)))

\* onRequest, GET /{id} answering every error of the database alike.
RouteByIDAnyError(opts, st, uu, req, id) ==
    LET requests == <<[method |-> "get", id |-> Str(id)]>>
        Found(a) == FindOneByIDCompleted(a.error, a.body)
        Respond(r) ==
            IF ~Truthy(Lookup(opts.restapi.members, "byID"))
            THEN Handled(st, uu, <<respondError(403, Str("ByID Queries Not Allowed"))>>, <<>>)
            ELSE IF r.error # Null
            THEN Handled(st, uu, <<respondError(500, Str("Database Error"))>>, requests)
            ELSE Handled(st, uu, <<respondResult(Obj(VO(r.data)))>>, requests)
    IN  Respond(Found(IF req.fail THEN [error |-> Failure, body |-> Undefined]
                      ELSE Get(st, id)))

\* onRequest, GET /{id}: findOneByID.
RouteByID(opts, st, uu, req, id) ==
    LET requests == <<[method |-> "get", id |-> Str(id)]>>
        Found(a) == FindOneByIDCompleted(a.error, a.body)
        Respond(r) ==
            IF ~Truthy(Lookup(opts.restapi.members, "byID"))
            THEN Handled(st, uu, <<respondError(403, Str("ByID Queries Not Allowed"))>>, <<>>)
            ELSE IF r.error # Null /\ r.error.val = "404"
            THEN Handled(st, uu, <<respondError(404, Str("Not Found"))>>, requests)
            ELSE IF r.error # Null
            THEN Handled(st, uu, <<respondError(500, Str("Database Error"))>>, requests)
            ELSE Handled(st, uu, <<respondResult(Obj(VO(r.data)))>>, requests)
    IN  Respond(Found(IF req.fail THEN [error |-> Failure, body |-> Undefined]
                      ELSE Get(st, id)))

\* JSON.parse of a request body: a body is its text's validity and the value
\* the text stands for.
JSONParse(body) == IF body.valid THEN body.value ELSE Undefined

\* onRequest, PUT or POST / that answers 200 whatever the database says.
RouteSaveDeaf(opts, st, uu, req) ==
    LET Answer(save) ==
            IF req.fail
            THEN [store |-> st, uuids |-> uu, error |-> Failure, body |-> Undefined]
            ELSE Insert(st, uu, save.doc)
        Respond(save, r) ==
            IF ~Truthy(Lookup(opts.restapi.members, "save"))
            THEN Handled(st, uu, <<respondError(403, Str("Save Is Not Allowed"))>>, <<>>)
            ELSE IF ~req.body.valid
            THEN Handled(st, uu, <<respondError(400, Str("Invalid JSON"))>>, <<>>)
            ELSE IF typeof(Prop(Instance(JSONParse(req.body)), "toVO")) # "function"
            THEN Handled(st, uu, <<>>, <<>>)
            ELSE Handled(r.store, r.uuids,
                         <<respondResult(Obj([ok |-> True,
                                              id |-> Str(TargetId(save.doc)),
                                              rev |-> Rev(1)]))>>, <<save>>)
        Saved(save) == Respond(save, Answer(save))
    IN  Saved(ModelSave(Instance(JSONParse(req.body))))

\* onRequest, PUT or POST / that saves what it is sent without a look at the
\* save flag.
RouteSaveOpen(opts, st, uu, req) ==
    LET Answer(save) ==
            IF req.fail
            THEN [store |-> st, uuids |-> uu, error |-> Failure, body |-> Undefined]
            ELSE Insert(st, uu, save.doc)
        Respond(save, r) ==
            IF ~req.body.valid
            THEN Handled(st, uu, <<respondError(400, Str("Invalid JSON"))>>, <<>>)
            ELSE IF typeof(Prop(Instance(JSONParse(req.body)), "toVO")) # "function"
            THEN Handled(st, uu, <<>>, <<>>)
            ELSE IF r.error # Null
            THEN Handled(r.store, r.uuids,
                         <<respondError(500, Str("Database Error"))>>, <<save>>)
            ELSE Handled(r.store, r.uuids, <<respondResult(Obj(r.body))>>, <<save>>)
        Saved(save) == Respond(save, Answer(save))
    IN  Saved(ModelSave(Instance(JSONParse(req.body))))

\* onRequest, PUT or POST /: processRequest.  model.save calls instance.toVO()
\* outside the try block: a body whose member shadows toVO with a value that
\* is no function makes the call throw, and nothing is written.
RouteSave(opts, st, uu, req) ==
    LET Answer(save) ==
            IF req.fail
            THEN [store |-> st, uuids |-> uu, error |-> Failure, body |-> Undefined]
            ELSE Insert(st, uu, save.doc)
        Respond(save, r) ==
            IF ~Truthy(Lookup(opts.restapi.members, "save"))
            THEN Handled(st, uu, <<respondError(403, Str("Save Is Not Allowed"))>>, <<>>)
            ELSE IF ~req.body.valid
            THEN Handled(st, uu, <<respondError(400, Str("Invalid JSON"))>>, <<>>)
            ELSE IF typeof(Prop(Instance(JSONParse(req.body)), "toVO")) # "function"
            THEN Handled(st, uu, <<>>, <<>>)
            ELSE IF r.error # Null /\ r.error.val = "409"
            THEN Handled(r.store, r.uuids, <<respondError(409, Str("Conflict"))>>,
                         <<save>>)
            ELSE IF r.error # Null
            THEN Handled(r.store, r.uuids,
                         <<respondError(500, Str("Database Error"))>>, <<save>>)
            ELSE Handled(r.store, r.uuids, <<respondResult(Obj(r.body))>>, <<save>>)
        Saved(save) == Respond(save, Answer(save))
    IN  Saved(ModelSave(Instance(JSONParse(req.body))))

\* The view flag of the request handler: options.restapi.views absent, or
\* options.restapi.views[flagName] not set.
Forbidden(opts, flagName) ==
    LET Unset(views) == ~Truthy(views) \/ ~Truthy(Lookup(views.members, flagName))
    IN  Unset(Lookup(opts.restapi.members, "views"))

\* onRequest, /{view}/{key}: findOne{View}(key, callback).  A method that is
\* not one of the generated ones is an inherited function, which takes the
\* callback for its params and answers nothing.
RouteFindOne(opts, st, uu, req, view, key) ==
    LET Respond(flagName, methodName, r) ==
            IF Forbidden(opts, flagName)
            THEN Handled(st, uu, <<respondError(403, Undefined)>>, <<>>)
            ELSE IF ModelMember(opts, methodName) # "function"
            THEN Handled(st, uu, <<respondError(400, Str("View Does Not Exist"))>>, <<>>)
            ELSE IF methodName \notin ViewMethods(opts)
            THEN Handled(st, uu, <<>>, <<>>)
            ELSE IF r.error # Null
            THEN Handled(st, uu, <<respondError(500, Str("Database Error"))>>, r.sent)
            ELSE IF r.data = Null
            THEN Handled(st, uu, <<respondError(404, Undefined)>>, r.sent)
            ELSE Handled(st, uu, <<respondResult(Obj(VO(r.data)))>>, r.sent)
    IN  Respond(camelize(view), "findOne" \o camelize("_" \o view),
                ViewOutcome(FALSE, <<Str(key), Callback>>, req.view, req.fail))

\* onRequest, /{view}/?{query}: findMany{View}(null, viewParams, callback).
RouteFindMany(opts, st, uu, req, view, search) ==
    LET Respond(flagName, methodName, r) ==
            IF Forbidden(opts, flagName)
            THEN Handled(st, uu, <<respondError(403, Undefined)>>, <<>>)
            ELSE IF ModelMember(opts, methodName) # "function"
            THEN Handled(st, uu, <<respondError(400, Str("View Does Not Exist"))>>, <<>>)
            ELSE IF methodName \notin ViewMethods(opts)
            THEN Handled(st, uu, <<>>, <<>>)
            ELSE IF r.error # Null
            THEN Handled(st, uu, <<respondError(500, Str("Database Error"))>>, r.sent)
            ELSE Handled(st, uu, <<respondResult(MapToVO(r.data))>>, r.sent)
        Query(viewParams) ==
            ViewOutcome(TRUE, <<Null, Obj(viewParams), Callback>>, req.view, req.fail)
    IN  Respond(camelize(view), "findMany" \o camelize("_" \o view),
                Query(parse(StripPrefix(search, "?"))))

\* onRequest(request, response): the route taken and what comes of it.
onRequest(opts, st, uu, req) ==
    LET Path(prefix) ==
            IF Truthy(prefix) THEN ReplacePrefix(req.url, prefix.val) ELSE req.url
        Route(path, params) ==
            IF req.method = "GET" /\ path = "/"
            THEN RouteIndex(opts, st, uu, req)
            ELSE IF req.method = "GET" /\ IsSegment(path)
            THEN RouteByID(opts, st, uu, req, Tail(path))
            ELSE IF req.method \in {"PUT", "POST"} /\ path = "/"
            THEN RouteSave(opts, st, uu, req)
            ELSE IF Len(params) = 3 /\ (params[3] = "" \/ Head(params[3]) # "?")
            THEN RouteFindOne(opts, st, uu, req, params[2], params[3])
            ELSE IF Len(params) >= 3 /\ params[3] # "" /\ Head(params[3]) = "?"
            THEN RouteFindMany(opts, st, uu, req, params[2], params[3])
            ELSE Handled(st, uu, <<respondError(400, Undefined)>>, <<>>)
        Routed(path) == Route(path, split(path, "/"))
    IN  Routed(Path(Lookup(opts.restapi.members, "prefix")))

\* The options the models under the request handler are constructed with:
\* everything enabled, with a flag for a view that is not configured;
\* everything disabled by a false flag; no views object; no flag but for save.
RestOptions ==
    { [views |-> ConfiguredViews,
       restapi |-> Obj([index |-> True, byID |-> True, save |-> True,
                        views |-> Obj([byDate |-> True, byTag |-> True])])],
      [views |-> ConfiguredViews,
       restapi |-> Obj([index |-> False, byID |-> False, save |-> False,
                        views |-> Obj([byDate |-> False])])],
      [views |-> ConfiguredViews,
       restapi |-> Obj([index |-> True, byID |-> True, save |-> True])],
      [views |-> ConfiguredViews,
       restapi |-> Obj([save |-> True])] }

NoBody == [valid |-> FALSE, value |-> Undefined]

\* The bodies of PUT and POST requests: a text that is not JSON, a document
\* without an id, one with an id, and one with an id, a revision and another
\* value.
Bodies ==
    { NoBody,
      [valid |-> TRUE, value |-> [value |-> Str("hello")]],
      [valid |-> TRUE, value |-> [_id |-> Str("x"), value |-> Str("hello")]] }
        \cup {[valid |-> TRUE,
               value |-> [_id |-> Str("x"), _rev |-> Rev(n),
                          value |-> Str("goodbye")]] : n \in 1..MaxWrites}

\* What the view holds when a request queries it.
RestViews == {{}, {Rank(Str("a"))}, {Rank(Str("a")), Rank(Str("b"))}}

ViewUrls ==
    { "/by_date/a", "/by_date/b", "/by_date/", "/by_tag/a", "/by_slug/a",
      "/constructor/a",
      "/by_date/?startkey=a&endkey=b", "/by_date/?key=b", "/by_date/?",
      "/by_tag/?key=a", "/by_slug/?key=a", "/constructor/?key=a" }

\* Requests on the index, the documents and the save route, and requests no
\* route takes.
Requests ==
    {[method |-> "GET", url |-> "/", body |-> NoBody, view |-> {}, fail |-> f] :
        f \in BOOLEAN}
        \cup {[method |-> "GET", url |-> "/" \o id, body |-> NoBody, view |-> {},
               fail |-> f] : id \in DocIds \cup {"ghost"}, f \in BOOLEAN}
        \cup {[method |-> m, url |-> "/", body |-> b, view |-> {}, fail |-> f] :
                 m \in {"PUT", "POST"}, b \in Bodies, f \in BOOLEAN}
        \cup {[method |-> "DELETE", url |-> "/", body |-> NoBody, view |-> {},
               fail |-> FALSE],
              [method |-> "PUT", url |-> "/x", body |-> NoBody, view |-> {},
               fail |-> FALSE],
              [method |-> "GET", url |-> "/by_date/a/b", body |-> NoBody,
               view |-> {}, fail |-> FALSE]}

\* Requests on the views, and requests with another method on their paths.
ViewRequests ==
    {[method |-> "GET", url |-> u, body |-> NoBody, view |-> v, fail |-> f] :
        u \in ViewUrls, v \in RestViews, f \in BOOLEAN}
        \cup {[method |-> m, url |-> u, body |-> NoBody, view |-> v, fail |-> f] :
                 m \in {"POST", "DELETE"}, u \in {"/by_date/a", "/by_date/?key=b"},
                 v \in RestViews, f \in BOOLEAN}

IsSave(req) == req.method \in {"PUT", "POST"} /\ req.url = "/"

\* onRequest is called with a request and the database has answered.
Request(req) ==
    LET Served(r) ==
            /\ IsSave(req) => uuids < MaxWrites
            /\ Writes(r.store) <= MaxWrites
            /\ request' = req
            /\ response' = r.response
            /\ sent' = r.sent
            /\ store' = r.store
            /\ uuids' = r.uuids
            /\ UNCHANGED <<handles, delivered, saved, call, options, gateway>>
    IN  Served(onRequest(options, store, uuids, req))

InitRest ==
    /\ Constructed(NanoDB)
    /\ options \in RestOptions
    /\ request = NoRequest
    /\ response = <<>>
    /\ store = [id \in DocIds |-> NoDoc]
    /\ uuids = 0
    /\ handles = [s \in Slots |-> Free]
    /\ sent = <<>>
    /\ delivered = [op |-> "none", slot |-> "none", id |-> Undefined,
                    threw |-> "none", error |-> Null, data |-> Undefined]
    /\ saved = {}
    /\ call = NoCall

NextRest == \E req \in Requests : Request(req)

SpecRest == InitRest /\ [][NextRest]_vars

\* The view routes neither read nor write the documents: requests on them are
\* followed on their own.
NextRestView == \E req \in ViewRequests : Request(req)

SpecRestView == InitRest /\ [][NextRestView]_vars

\* Requests that save a body with a member named after a method of the
\* instance.
MemberBodies ==
    { [valid |-> TRUE, value |-> [toVO |-> Num(1), value |-> Str("hello")]],
      [valid |-> TRUE, value |-> [save |-> Num(1), value |-> Str("hello")]] }

MemberRequests ==
    {[method |-> m, url |-> "/", body |-> b, view |-> {}, fail |-> f] :
        m \in {"PUT", "POST"}, b \in MemberBodies, f \in BOOLEAN}

NextRestAny == \E req \in Requests \cup MemberRequests : Request(req)

SpecRestAny == InitRest /\ [][NextRestAny]_vars

\* The requests on every route, on one handler.
NextRestAll == \E req \in Requests \cup ViewRequests : Request(req)

SpecRestAll == InitRest /\ [][NextRestAll]_vars

\* Handlers with a prefix: one of plain characters, one with a '.' in it.
Prefixes == {"/testmodel", "/api.v1"}

PrefixOptions ==
    {[views |-> ConfiguredViews,
      restapi |-> Obj([prefix |-> Str(p), index |-> True, byID |-> True,
                       save |-> True, views |-> Obj([byDate |-> True])])] :
        p \in Prefixes}

\* The paths requested: with a prefix before them, with none, and with a
\* start that is no prefix.
PrefixPaths == {"/", "/x", "/by_date/a", "/by_date/?key=a", ""}
PrefixHeads == Prefixes \cup {"", "/apiXv1"}

PrefixRequests ==
    {[method |-> "GET", url |-> h \o x, body |-> NoBody,
      view |-> {Rank(Str("a"))}, fail |-> f] :
        h \in PrefixHeads, x \in PrefixPaths, f \in BOOLEAN}
        \cup {[method |-> "POST", url |-> h \o "/",
               body |-> [valid |-> TRUE,
                         value |-> [_id |-> Str("x"), value |-> Str("hello")]],
               view |-> {}, fail |-> f] :
                 h \in PrefixHeads, f \in BOOLEAN}

InitPrefix ==
    /\ Constructed(NanoDB)
    /\ options \in PrefixOptions
    /\ request = NoRequest
    /\ response = <<>>
    /\ store = [id \in DocIds |-> NoDoc]
    /\ uuids = 0
    /\ handles = [s \in Slots |-> Free]
    /\ sent = <<>>
    /\ delivered = [op |-> "none", slot |-> "none", id |-> Undefined,
                    threw |-> "none", error |-> Null, data |-> Undefined]
    /\ saved = {}
    /\ call = NoCall

NextPrefix == \E req \in PrefixRequests : Request(req)

SpecRestPrefix == InitPrefix /\ [][NextPrefix]_vars

-----------------------------------------------------------------------------
(* The methods of the model, in their callback and their promise form *)

\* The exception of a member read on a handle that is null.
TypeError(member) == "TypeError: Cannot read property '" \o member \o "' of null"

NoDatabase == "No database set!"

\* The member of this._db a method calls.
Member(op) ==
    CASE op = "save" -> "insert"
      [] op = "delete" -> "destroy"
      [] op = "findAll" -> "list"
      [] OTHER -> "get"

\* The request a method makes on this._db.
Asked(c) ==
    CASE c.op = "save" -> ModelSave(c.instance)
      [] c.op = "delete" -> ModelDelete(c.instance)
      [] c.op = "findAll" -> [method |-> "list", params |-> [include_docs |-> True]]
      [] c.op = "findOneByID" -> [method |-> "get", id |-> c.id]
      [] c.op = "findManyByView" ->
            [method |-> "get", path |-> ViewPath, params |-> c.params]
      [] c.op = "findOneByView" ->
            [method |-> "get", path |-> ViewPath,
             params |-> findOneByViewParams(c.params)]

\* The database's answer to the request: the error and the body it calls
\* back with, and the documents afterwards.
Answer(c, st, uu) ==
    LET Kept(a) == [store |-> st, uuids |-> uu, error |-> a.error, body |-> a.body]
        Rows(a) == [store |-> st, uuids |-> uu, error |-> a.error, body |-> a.rows]
        Destroyed(a) ==
            [store |-> a.store, uuids |-> uu, error |-> a.error, body |-> a.body]
    IN  IF c.fail
        THEN [store |-> st, uuids |-> uu, error |-> Failure, body |-> Undefined]
        ELSE CASE c.op = "save" -> Insert(st, uu, Asked(c).doc)
               [] c.op = "delete" -> Destroyed(Destroy(st, Asked(c).id, Asked(c).rev))
               [] c.op = "findAll" -> [store |-> st, uuids |-> uu, error |-> Null,
                                       body |-> List(st)]
               [] c.op = "findOneByID" -> Kept(Get(st, c.id.val))
               [] OTHER -> Rows(QueryView(c.view, Asked(c).params))

\* findAll's completion that hides the error of the database.
CompletedQuietly(c, error, body) ==
    CASE c.op \in {"save", "delete"} -> [error |-> error, data |-> body]
      [] c.op = "findAll" -> [error |-> Null, data |-> Arr(<<>>)]
      [] c.op = "findOneByID" -> FindOneByIDCompleted(error, body)
      [] c.op = "findManyByView" -> findManyByViewCompleted(error, body)
      [] c.op = "findOneByView" ->
            LET Found(res) == findOneByViewCompleted(res.error, res.data)
            IN  Found(findManyByViewCompleted(error, body))

\* What the method's callback is called with when the database has answered.
\* save and delete hand their callback to the database as it is.
Completed(c, error, body) ==
    CASE c.op \in {"save", "delete"} -> [error |-> error, data |-> body]
      [] c.op = "findAll" -> findAllCompleted(error, body)
      [] c.op = "findOneByID" -> FindOneByIDCompleted(error, body)
      [] c.op = "findManyByView" -> findManyByViewCompleted(error, body)
      [] c.op = "findOneByView" ->
            LET Found(res) == findOneByViewCompleted(res.error, res.data)
            IN  Found(findManyByViewCompleted(error, body))

\* A method of Model.prototype called with a callback: the exception it
\* ends with, or the requests made and the calls of the callback.
WithCallback(c, handle, st, uu) ==
    LET Threw(what) ==
            [threw |-> what, sent |-> <<>>, callbacks |-> <<>>,
             store |-> st, uuids |-> uu]
        Done(a) ==
            [threw |-> "none", sent |-> <<Asked(c)>>,
             callbacks |-> <<Completed(c, a.error, a.body)>>,
             store |-> a.store, uuids |-> a.uuids]
    IN  IF c.op = "findOneByID" /\ ~Truthy(c.id)
        THEN Threw("ID is missing")
        ELSE IF c.op \in {"findAll", "findOneByID"} /\ ~Truthy(handle)
        THEN Threw(NoDatabase)
        ELSE IF handle = Null
        THEN Threw(TypeError(Member(c.op)))
        ELSE Done(Answer(c, st, uu))

\* The same method called without a callback: Q.ninvoke calls it later with
\* a callback of Q's own and returns a promise, which is rejected with the
\* error, or with the exception of the call, and otherwise fulfilled with the
\* data.  findOneByID looks at its id before that.
WithoutCallback(c, handle, st, uu) ==
    LET Promise(r) ==
            [threw |-> "none", sent |-> r.sent, callbacks |-> <<>>,
             store |-> r.store, uuids |-> r.uuids,
             promise |-> IF r.threw # "none"
                         THEN [state |-> "rejected", reason |-> Str(r.threw),
                               value |-> Undefined]
                         ELSE Settled(r.callbacks[1])]
        Returned(r) ==
            IF c.op = "findOneByID" /\ ~Truthy(c.id)
            THEN [threw |-> r.threw, sent |-> <<>>, callbacks |-> <<>>,
                  store |-> st, uuids |-> uu, promise |-> Undefined]
            ELSE Promise(r)
    IN  Returned(WithCallback(c, handle, st, uu))

\* A call of a method of the model, in either form.
Invoked(c, handle, st, uu) ==
    LET Plain(r) ==
            [threw |-> r.threw, sent |-> r.sent, callbacks |-> r.callbacks,
             store |-> r.store, uuids |-> r.uuids, promise |-> Undefined]
    IN  IF c.callback
        THEN Plain(WithCallback(c, handle, st, uu))
        ELSE WithoutCallback(c, handle, st, uu)

\* The instances save and delete are called with.
GatewayInstances ==
    {Instance(b.value) : b \in Bodies \ {NoBody}}

GatewayParams == ParamObjects \cup {[key |-> Str("b"), limit |-> Num(2)]}

\* The calls of the methods: each operation with its arguments, with and
\* without a callback, answered or failed by the database.
Invocations ==
    LET Call(op, instance, id, params, view) ==
            {[op |-> op, instance |-> instance, id |-> id, params |-> params,
              view |-> view, callback |-> cb, fail |-> f] :
                cb \in BOOLEAN, f \in BOOLEAN}
    IN  UNION ({Call(op, i, Undefined, EmptyObject, {}) :
                   op \in {"save", "delete"}, i \in GatewayInstances}
               \cup {Call("findAll", Free, Undefined, EmptyObject, {})}
               \cup {Call("findOneByID", Free, id, EmptyObject, {}) :
                        id \in AskedIds}
               \cup {Call(op, Free, Undefined, params, view) :
                        op \in {"findManyByView", "findOneByView"},
                        params \in GatewayParams, view \in RestViews})

\* A method of the model is called and the database has answered.
Invoke(c) ==
    LET Came(r) ==
            /\ c.op = "save" => uuids < MaxWrites
            /\ Writes(r.store) <= MaxWrites
            /\ invoked' = c
            /\ outcome' = [threw |-> r.threw, callbacks |-> r.callbacks,
                           promise |-> r.promise]
            /\ sent' = r.sent
            /\ store' = r.store
            /\ uuids' = r.uuids
            /\ UNCHANGED <<db, pending, handles, delivered, saved, call, options,
                           request, response>>
    IN  Came(Invoked(c, db, store, uuids))

\* A model constructed with a database handle, or with none.
InitGateway ==
    /\ db \in {NanoDB, Null}
    /\ invoked = NoInvocation
    /\ outcome = NoOutcome
    /\ pending = [p \in Callers |-> NoInvocation]
    /\ options = NoOptions
    /\ request = NoRequest
    /\ response = <<>>
    /\ store = [id \in DocIds |-> NoDoc]
    /\ uuids = 0
    /\ handles = [s \in Slots |-> Free]
    /\ sent = <<>>
    /\ delivered = [op |-> "none", slot |-> "none", id |-> Undefined,
                    threw |-> "none", error |-> Null, data |-> Undefined]
    /\ saved = {}
    /\ call = NoCall

NextGateway == \E c \in Invocations : Invoke(c)

SpecGateway == InitGateway /\ [][NextGateway]_vars

-----------------------------------------------------------------------------
(* Callers that share one model *)

\* The calls two callers make at a time: with a callback, on the document x
\* and on the view.
ConcurrentCalls ==
    {c \in Invocations :
        /\ c.callback /\ ~c.fail
        /\ c.op \in {"save", "delete", "findOneByID", "findManyByView"}
        /\ c.op \in {"save", "delete"} =>
              /\ Prop(c.instance, "_id") = Str("x")
              /\ Prop(c.instance, "_rev") \in {Undefined, Null, Rev(1)}
        /\ c.op = "delete" => Prop(c.instance, "_rev") = Rev(1)
        /\ c.op = "findOneByID" => c.id = Str("x")
        /\ c.op = "findManyByView" =>
              c.params = [key |-> Str("a")] /\ c.view = {Rank(Str("a"))}}

\* The requests the handler of the same model serves meanwhile.
ConcurrentRequests ==
    {req \in Requests :
        /\ ~req.fail
        /\ \/ req.method = "GET" /\ req.url = "/"
           \/ /\ req.method = "POST" /\ req.url = "/" /\ req.body.valid
              /\ Prop(req.body.value, "_id") = Str("x")
              /\ ~Has(req.body.value, "_rev")}

\* A caller calls a method: the request is on its way to the database.
Begin(p, c) ==
    /\ pending[p] = NoInvocation
    /\ pending' = [pending EXCEPT ![p] = c]
    /\ sent' = <<Asked(c)>>
    /\ UNCHANGED <<store, uuids, handles, delivered, saved, call, options,
                   request, response, db, invoked, outcome>>

\* A completion that reads the arguments of the call made last on the model
\* instead of its own.
SettleShared(p) ==
    LET Other(q) == IF pending[q] # NoInvocation THEN pending[q] ELSE pending[p]
        Came(r) ==
            /\ pending[p] # NoInvocation
            /\ Writes(r.store) <= MaxWrites
            /\ invoked' = pending[p]
            /\ outcome' = [threw |-> r.threw, callbacks |-> r.callbacks,
                           promise |-> r.promise]
            /\ pending' = [pending EXCEPT ![p] = NoInvocation]
            /\ store' = r.store
            /\ uuids' = r.uuids
            /\ UNCHANGED <<sent, handles, delivered, saved, call, options,
                           request, response, db>>
    IN  Came(Invoked(Other(CHOOSE q \in Callers : q # p), db, store, uuids))

\* The database answers a caller's request and the method completes.
Settle(p) ==
    LET Came(r) ==
            /\ pending[p] # NoInvocation
            /\ Writes(r.store) <= MaxWrites
            /\ invoked' = pending[p]
            /\ outcome' = [threw |-> r.threw, callbacks |-> r.callbacks,
                           promise |-> r.promise]
            /\ pending' = [pending EXCEPT ![p] = NoInvocation]
            /\ store' = r.store
            /\ uuids' = r.uuids
            /\ UNCHANGED <<sent, handles, delivered, saved, call, options,
                           request, response, db>>
    IN  Came(Invoked(pending[p], db, store, uuids))

\* A model with every route enabled, and nothing called yet.
InitConcurrent ==
    /\ Constructed(NanoDB)
    /\ options = [views |-> ConfiguredViews,
                  restapi |-> Obj([index |-> True, byID |-> True, save |-> True,
                                   views |-> Obj([byDate |-> True])])]
    /\ request = NoRequest
    /\ response = <<>>
    /\ store = [id \in DocIds |-> NoDoc]
    /\ uuids = 0
    /\ handles = [s \in Slots |-> Free]
    /\ sent = <<>>
    /\ delivered = [op |-> "none", slot |-> "none", id |-> Undefined,
                    threw |-> "none", error |-> Null, data |-> Undefined]
    /\ saved = {}
    /\ call = NoCall

NextConcurrent ==
    \/ \E p \in Callers, c \in ConcurrentCalls : Begin(p, c)
    \/ \E p \in Callers : Settle(p)
    \/ \E req \in ConcurrentRequests : Request(req)
    \/ ViewCall(FALSE, <<Str("a"), Callback>>, {Rank(Str("a"))}, FALSE)

SpecConcurrent == InitConcurrent /\ [][NextConcurrent]_vars

-----------------------------------------------------------------------------
(* The handles' save and delete with their completion handlers *)

\* A completion that calls back with the error and goes on to call back once
\* more.
HandleCompletedTwice(op, this, error, body) ==
    IF error # Null
    THEN [this |-> this,
          callbacks |-> <<[error |-> error, data |-> body],
                          [error |-> Null, data |-> Undefined]>>]
    ELSE [this |-> IF op = "save" THEN SaveCompleted(this, error, body)
                   ELSE DeleteCompleted(this, error),
          callbacks |-> <<[error |-> Null, data |-> Undefined]>>]

\* Instance.prototype.save and delete, the function they hand to this._model:
\* callback.apply(this, arguments) on an error, and otherwise the assignments
\* and callback.call(this, null).  The instance afterwards and the calls of
\* the caller's callback.
HandleCompleted(op, this, error, body) ==
    IF error # Null
    THEN [this |-> this, callbacks |-> <<[error |-> error, data |-> body]>>]
    ELSE [this |-> IF op = "save" THEN SaveCompleted(this, error, body)
                   ELSE DeleteCompleted(this, error),
          callbacks |-> <<[error |-> Null, data |-> Undefined]>>]

\* Instance.prototype.save or delete called with a callback: the method of
\* this._model is called with the function above, which runs when the
\* database has answered.
HandleWithCallback(op, this, handle, st, uu, fail) ==
    LET Ran(r, h) ==
            [threw |-> "none", sent |-> r.sent, this |-> h.this,
             callbacks |-> h.callbacks, store |-> r.store, uuids |-> r.uuids]
        Done(r) ==
            IF r.threw # "none"
            THEN [threw |-> r.threw, sent |-> r.sent, this |-> this,
                  callbacks |-> <<>>, store |-> r.store, uuids |-> r.uuids]
            ELSE Ran(r, HandleCompleted(op, this, r.callbacks[1].error,
                                        r.callbacks[1].data))
    IN  Done(WithCallback([op |-> op, instance |-> this, id |-> Undefined,
                           params |-> EmptyObject, view |-> {},
                           callback |-> TRUE, fail |-> fail],
                          handle, st, uu))

\* Instance.prototype.save or delete in either form: without a callback
\* Q.ninvoke(this, op) makes the same call with Q's node callback and returns
\* a promise.
HandleInvoked(op, this, cb, handle, st, uu, fail) ==
    LET Plain(r) ==
            [threw |-> r.threw, sent |-> r.sent, this |-> r.this,
             callbacks |-> r.callbacks, store |-> r.store, uuids |-> r.uuids,
             promise |-> Undefined]
        Promise(r) ==
            [threw |-> "none", sent |-> r.sent, this |-> r.this,
             callbacks |-> <<>>, store |-> r.store, uuids |-> r.uuids,
             promise |-> IF r.threw # "none"
                         THEN [state |-> "rejected", reason |-> Str(r.threw),
                               value |-> Undefined]
                         ELSE Settled(r.callbacks[1])]
    IN  IF cb
        THEN Plain(HandleWithCallback(op, this, handle, st, uu, fail))
        ELSE Promise(HandleWithCallback(op, this, handle, st, uu, fail))

\* instance.save or instance.delete is called, with a callback or without,
\* and the database has answered.
HandleCall(s, op, cb, fail) ==
    LET Came(r) ==
            /\ Writes(r.store) <= MaxWrites
            /\ invoked' = [op |-> op, slot |-> s, callback |-> cb, fail |-> fail]
            /\ outcome' = [threw |-> r.threw, callbacks |-> r.callbacks,
                           promise |-> r.promise]
            /\ handles' = [handles EXCEPT ![s] = r.this]
            /\ sent' = r.sent
            /\ store' = r.store
            /\ uuids' = r.uuids
            /\ UNCHANGED <<db, pending, delivered, saved, call, options,
                           request, response>>
    IN  /\ IsInstance(handles[s])
        /\ op = "save" => TargetId(VO(handles[s])) \in DocIds
        /\ (op = "delete" /\ handles[s]["_id"].kind = "string") =>
               handles[s]["_id"].val \in DocIds
        /\ Came(HandleInvoked(op, handles[s], cb, db, store, uuids, fail))

\* The caller creates instances and finds the documents x and u1, and calls
\* save and delete on what it holds.
NextHandle ==
    \/ \E s \in Creators, data \in CreateData : Create(s, data)
    \/ \E id \in {Str("x"), Str(Uuid(1))}, dest \in Keepers :
          FindOneByID(id, dest, FALSE)
    \/ \E s \in Slots, op \in {"save", "delete"}, cb \in BOOLEAN, fail \in BOOLEAN :
          HandleCall(s, op, cb, fail)

SpecHandle == Init /\ [][NextHandle]_vars

-----------------------------------------------------------------------------
(* The routes *)

\* A request was handled and one response was written.
Answered == request # NoRequest /\ Len(response) = 1

\* The capability has a flag of its own in options.restapi, and it is true.
Enabled(flag) ==
    /\ Has(options.restapi.members, flag)
    /\ options.restapi.members[flag] = True

\* The view has a flag of its own under its camelized name in
\* options.restapi.views, and it is true.
ViewEnabled(view) ==
    /\ Has(options.restapi.members, "views")
    /\ Has(options.restapi.members["views"].members, camelize(view))
    /\ options.restapi.members["views"].members[camelize(view)] = True

LiveIds == {id \in DocIds : Live(store, id)}

\* C15: GET / is answered 403 with the body {error: 403, reason: "Indexing
\* Not Allowed"} and without a request to the database when index is not
\* enabled; when it is enabled, 500 when the list request fails and otherwise
\* 200 with an array, one value object per document.
C15_IndexRoute ==
    (request.method = "GET" /\ request.url = "/") =>
        /\ Len(response) = 1
        /\ IF ~Enabled("index")
           THEN /\ response[1].status = 403
                /\ response[1].body =
                      Obj([error |-> Num(403), reason |-> Str("Indexing Not Allowed")])
                /\ sent = <<>>
           ELSE IF request.fail
           THEN response[1].status = 500
           ELSE /\ response[1].status = 200
                /\ response[1].body.kind = "array"
                /\ Len(response[1].body.items) = Cardinality(LiveIds)
                /\ \A i \in 1..Len(response[1].body.items) :
                      \E id \in LiveIds : response[1].body.items[i] = store[id].doc

\* GET / was answered 200 with two documents.
C15_Witness ==
    /\ request.method = "GET" /\ request.url = "/"
    /\ Answered /\ response[1].status = 200
    /\ Len(response[1].body.items) = 2

\* GET / was answered 403 by a handler whose index flag is false.
C15_WitnessForbidden ==
    /\ request.method = "GET" /\ request.url = "/"
    /\ Has(options.restapi.members, "index")
    /\ Answered /\ response[1].status = 403

\* C16: GET /{segment} is answered 403 when byID is not enabled; when it is
\* enabled, 404 when no document has the id, 500 on another error of the
\* database, and otherwise 200 with the document's value object.
C16_ByIDRoute ==
    (request.method = "GET" /\ IsSegment(request.url)) =>
        /\ Len(response) = 1
        /\ LET id == Tail(request.url)
           IN  IF ~Enabled("byID") THEN response[1].status = 403
               ELSE IF request.fail THEN response[1].status = 500
               ELSE IF id \notin LiveIds THEN response[1].status = 404
               ELSE /\ response[1].status = 200
                    /\ response[1].body = Obj(store[id].doc)

\* GET /x was answered 200 with the document x in its second revision.
C16_Witness ==
    /\ request.method = "GET" /\ request.url = "/x"
    /\ Answered /\ response[1].status = 200
    /\ response[1].body.members["_rev"] = Rev(2)

\* GET /ghost was answered 404 by a handler with byID enabled.
C16_WitnessNotFound ==
    /\ request.method = "GET" /\ request.url = "/ghost"
    /\ Answered /\ response[1].status = 404

\* What the database answers to the insert of the document a body stands for.
StoreReports(req) ==
    IF req.fail THEN Failure
    ELSE Insert(store, uuids, VO(Instance(req.body.value))).error

\* C17: PUT / and POST / are answered alike: 403 when save is not enabled;
\* when it is enabled, 400 for a body that is not JSON, 409 when the database
\* reports a conflict, 500 when it reports another error; and a request
\* answered with an error leaves the documents as they were.
C17_SaveRoute ==
    [][\A req \in Requests :
          (IsSave(req) /\ Request(req)) =>
              /\ Len(response') = 1
              /\ IF ~Enabled("save") THEN response'[1].status = 403
                 ELSE IF ~req.body.valid THEN response'[1].status = 400
                 ELSE IF StoreReports(req) = Conflict THEN response'[1].status = 409
                 ELSE IF StoreReports(req) # Null THEN response'[1].status = 500
                 ELSE response'[1].status = 200
              /\ \A m \in {"PUT", "POST"} :
                    onRequest(options, store, uuids, [req EXCEPT !.method = m]).response
                        = response'
              /\ response'[1].status >= 400 =>
                    (store' = store /\ uuids' = uuids)]_vars

\* POST / with the first revision of x was answered 409 when x was in its
\* second revision.
C17_Witness ==
    /\ request.method = "POST" /\ IsSave(request)
    /\ Answered /\ response[1].status = 409
    /\ Prop(request.body.value, "_rev") = Rev(1)
    /\ store["x"].gen = 2

\* PUT / with a body that is not JSON was answered 400.
C17_WitnessInvalid ==
    /\ request.method = "PUT" /\ IsSave(request)
    /\ Answered /\ response[1].status = 400

\* C18: with save enabled, PUT / with a body that carries the id of a
\* document and its current revision is answered 200 with the next revision,
\* and the document then has the body's fields under the same id; POST / with
\* a body without an id is answered 200 with the id and the first revision of
\* a document that did not exist before.
C18_SaveRouteStores ==
    [][\A req \in Requests :
          (/\ IsSave(req) /\ Enabled("save")
           /\ req.body.valid /\ ~req.fail
           /\ Request(req)) =>
              LET body == req.body.value
              IN  /\ (/\ req.method = "PUT"
                      /\ Has(body, "_id") /\ Has(body, "_rev")
                      /\ Live(store, body["_id"].val)
                      /\ body["_rev"] = Rev(store[body["_id"].val].gen)) =>
                        LET id == body["_id"].val
                        IN  /\ response'[1].status = 200
                            /\ response'[1].body.members["id"] = Str(id)
                            /\ response'[1].body.members["rev"] = Rev(store[id].gen + 1)
                            /\ Live(store', id)
                            /\ store'[id].doc["_rev"] = Rev(store[id].gen + 1)
                            /\ Fields(store'[id].doc) = Fields(body)
                            /\ \A other \in DocIds \ {id} : store'[other] = store[other]
                  /\ (req.method = "POST" /\ ~Has(body, "_id")) =>
                        LET id == Uuid(uuids + 1)
                        IN  /\ response'[1].status = 200
                            /\ response'[1].body.members["id"] = Str(id)
                            /\ response'[1].body.members["rev"] = Rev(1)
                            /\ store[id].gen = 0
                            /\ Live(store', id)
                            /\ Fields(store'[id].doc) = Fields(body)
                            /\ \A other \in DocIds \ {id} : store'[other] = store[other]]_vars

\* PUT / with x, its first revision and the value goodbye was answered 200,
\* and x is stored in its second revision with that value.
C18_Witness ==
    /\ request.method = "PUT" /\ IsSave(request)
    /\ Answered /\ response[1].status = 200
    /\ Prop(request.body.value, "_rev") = Rev(1)
    /\ store["x"].gen = 2
    /\ store["x"].doc["value"] = Str("goodbye")

\* POST / with a body without an id was answered 200 with the id the database
\* assigned.
C18_WitnessCreate ==
    /\ request.method = "POST" /\ IsSave(request)
    /\ request.body.valid /\ ~Has(request.body.value, "_id")
    /\ Answered /\ response[1].status = 200
    /\ response[1].body.members["id"] = Str(Uuid(1))

\* The pieces of the request's path.
Pieces == split(request.url, "/")

\* C19: GET /{view}/{key} is answered 403 when the view is not enabled by a
\* flag of its name in restapi.views; 400 when it is enabled and no such view
\* is configured; 500 when the database fails; 404 when the view has no row
\* for the key; and otherwise 200 with the value object of the first row.
C19_FindOneRoute ==
    (/\ request.method = "GET" /\ Len(Pieces) = 3
     /\ Pieces[3] = "" \/ Head(Pieces[3]) # "?") =>
        /\ Len(response) = 1
        /\ LET rows == QueryView(request.view, [key |-> Str(Pieces[3])]).rows
           IN  IF ~ViewEnabled(Pieces[2]) THEN response[1].status = 403
               ELSE IF Pieces[2] \notin options.views THEN response[1].status = 400
               ELSE IF request.fail THEN response[1].status = 500
               ELSE IF rows = <<>> THEN response[1].status = 404
               ELSE /\ response[1].status = 200
                    /\ response[1].body = Obj(rows[1].value)

\* C20: GET /{view}/?{querystring} on an enabled view queries the view with
\* the parameters of the query string and is answered 200 with an array of
\* value objects, one per row, also when there is no row; it is answered 403
\* when the view is not enabled, 400 when no such view is configured and 500
\* when the database fails.
C20_FindManyRoute ==
    (/\ request.method = "GET" /\ Len(Pieces) = 3
     /\ Pieces[3] # "" /\ Head(Pieces[3]) = "?") =>
        /\ Len(response) = 1
        /\ LET params == parse(Tail(Pieces[3]))
               rows == QueryView(request.view, params).rows
           IN  IF ~ViewEnabled(Pieces[2]) THEN response[1].status = 403
               ELSE IF Pieces[2] \notin options.views THEN response[1].status = 400
               ELSE IF request.fail THEN response[1].status = 500
               ELSE /\ sent = <<[method |-> "get", path |-> ViewPath,
                                 params |-> params]>>
                    /\ response[1].status = 200
                    /\ response[1].body =
                          Arr([i \in 1..Len(rows) |-> rows[i].value])

\* The request is one the handler has a route for: GET /, GET /{segment},
\* PUT or POST /, GET /{view}/{key}, GET /{view}/?{querystring}.
HasRoute ==
    \/ request.method = "GET" /\ request.url = "/"
    \/ request.method = "GET" /\ IsSegment(request.url)
    \/ request.method \in {"PUT", "POST"} /\ request.url = "/"
    \/ request.method = "GET" /\ Len(Pieces) = 3

\* C21: a request the handler has no route for is answered 400 and nothing
\* is requested from the database; a request with a method other than GET on
\* the path of a view runs no query on the view.
C21_OtherRequests ==
    (request # NoRequest /\ ~HasRoute) =>
        /\ Len(response) = 1
        /\ response[1].status = 400
        /\ sent = <<>>

\* The same for the requests that are not on the path of a view.
C21_OffViews ==
    (request # NoRequest /\ ~HasRoute /\ Len(Pieces) # 3) =>
        /\ Len(response) = 1
        /\ response[1].status = 400
        /\ sent = <<>>


\* C22: every error response, on every route and for every status, has a
\* body with an error field equal to the status written and a reason field
\* that holds a string.
C22_ErrorBody ==
    \A i \in 1..Len(response) :
        response[i].status >= 400 =>
            /\ response[i].body.kind = "object"
            /\ Prop(response[i].body.members, "error") = Num(response[i].status)
            /\ Prop(response[i].body.members, "reason").kind = "string"

\* The same without the reason: the error field equals the status written.
C22_ErrorField ==
    \A i \in 1..Len(response) :
        response[i].status >= 400 =>
            /\ response[i].body.kind = "object"
            /\ Prop(response[i].body.members, "error") = Num(response[i].status)


\* The handler's options without the prefix.
NoPrefix == [options EXCEPT !.restapi = Obj(Without(@.members, {"prefix"}))]

\* The configured prefix, and a request's path after it when the path starts
\* with it.
P == options.restapi.members["prefix"].val
StartsWithP(url) == Len(P) <= Len(url) /\ SubSeq(url, 1, Len(P)) = P
AfterP(url) == SubSeq(url, Len(P) + 1, Len(url))

\* C23: with a prefix P, a request for P followed by X is answered as the
\* request for X is by a handler without prefix, with the same requests to
\* the database and the same documents afterwards; a request whose path does
\* not start with P is answered as the handler without prefix answers it.
C23_Prefix ==
    [][\A req \in PrefixRequests :
          Request(req) =>
              LET Same(r) == /\ response' = r.response
                             /\ sent' = r.sent
                             /\ store' = r.store
              IN  IF StartsWithP(req.url)
                  THEN Same(onRequest(NoPrefix, store, uuids,
                                      [req EXCEPT !.url = AfterP(req.url)]))
                  ELSE Same(onRequest(NoPrefix, store, uuids, req))]_vars

\* The same for a prefix of plain characters.
C23_PlainPrefix ==
    [][\A req \in PrefixRequests :
          (P = "/testmodel" /\ Request(req)) =>
              LET Same(r) == /\ response' = r.response
                             /\ sent' = r.sent
                             /\ store' = r.store
              IN  IF StartsWithP(req.url)
                  THEN Same(onRequest(NoPrefix, store, uuids,
                                      [req EXCEPT !.url = AfterP(req.url)]))
                  ELSE Same(onRequest(NoPrefix, store, uuids, req))]_vars


\* The value objects of the handles a call delivered.
Wire(handles_) == Arr([i \in 1..Len(handles_.items) |-> VO(handles_.items[i])])

\* The parameters a query string stands for.
QueryParams ==
    [q \in {"startkey=a&endkey=b", "key=b", "key=a", ""} |->
        CASE q = "startkey=a&endkey=b" -> [startkey |-> Str("a"), endkey |-> Str("b")]
          [] q = "key=b" -> [key |-> Str("b")]
          [] q = "key=a" -> [key |-> Str("a")]
          [] q = "" -> EmptyObject]

\* C24: the body of a 200 response to a GET is the wire form of what the
\* direct call delivers over the same documents: GET / that of findAll(),
\* element by element; GET /{id} that of findOneByID(id); GET /{view}/{key}
\* that of findOne{View}(key); GET /{view}/?{qs} that of
\* findMany{View}(null, params), element by element.
C24_WireProjection ==
    (Answered /\ request.method = "GET" /\ response[1].status = 200) =>
        /\ request.url = "/" =>
              response[1].body = Wire(findAllCompleted(Null, List(store)).data)
        /\ \A id \in DocIds :
              request.url = "/" \o id =>
                  response[1].body =
                      Obj(VO(FindOneByIDCompleted(Null, Get(store, id).body).data))
        /\ \A view \in options.views, key \in {"a", "b", ""} :
              request.url = "/" \o view \o "/" \o key =>
                  response[1].body =
                      Obj(VO(ViewOutcome(FALSE, <<Str(key), Callback>>,
                                         request.view, FALSE).data))
        /\ \A view \in options.views, q \in DOMAIN QueryParams :
              request.url = "/" \o view \o "/?" \o q =>
                  response[1].body =
                      Wire(ViewOutcome(TRUE, <<Null, Obj(QueryParams[q]), Callback>>,
                                       request.view, FALSE).data)
        /\ \/ request.url = "/"
           \/ \E id \in DocIds : request.url = "/" \o id
           \/ \E view \in options.views, key \in {"a", "b", ""} :
                 request.url = "/" \o view \o "/" \o key
           \/ \E view \in options.views, q \in DOMAIN QueryParams :
                 request.url = "/" \o view \o "/?" \o q

\* GET / was answered with three documents.
C24_Witness ==
    /\ Answered /\ request.method = "GET" /\ request.url = "/"
    /\ response[1].status = 200
    /\ Len(response[1].body.items) = 3

\* GET /by_date/?startkey=a&endkey=b was answered with two rows.
C24_WitnessMany ==
    /\ Answered /\ request.method = "GET"
    /\ request.url = "/by_date/?startkey=a&endkey=b"
    /\ response[1].status = 200
    /\ Len(response[1].body.items) = 2

\* GET /by_date/b was answered with a row.
C24_WitnessOne ==
    /\ Answered /\ request.method = "GET" /\ request.url = "/by_date/b"
    /\ response[1].status = 200

\* GET /x was answered with the document.
C24_WitnessByID ==
    /\ Answered /\ request.method = "GET" /\ request.url = "/x"
    /\ response[1].status = 200


\* A method was called with arguments it takes.
WasInvoked ==
    /\ invoked # NoInvocation
    /\ invoked.op = "findOneByID" => Truthy(invoked.id)

\* C25: on a model without database handle, every one of save, delete,
\* findOneByID, findAll, findManyByView and findOneByView, with a callback or
\* without, ends with the exception that tells that no database is set,
\* before anything is requested and without a promise or a call of the
\* callback.
C25_NoStore ==
    (db = Null /\ WasInvoked) =>
        /\ outcome.threw = NoDatabase
        /\ sent = <<>>
        /\ outcome.callbacks = <<>>
        /\ outcome.promise = Undefined

\* What holds of them: nothing is requested; with a callback the call ends
\* with an exception, without one with a rejected promise.
C25_NothingAsked ==
    (db = Null /\ WasInvoked) =>
        /\ sent = <<>>
        /\ outcome.callbacks = <<>>
        /\ IF invoked.callback
           THEN outcome.threw # "none"
           ELSE outcome.threw = "none" /\ outcome.promise.state = "rejected"


\* C26: when the database answers a request of save, delete, findOneByID,
\* findAll, findManyByView or findOneByView with an error, the caller gets
\* that error as it is, in the callback's error argument or as the reason
\* the promise is rejected with, and no result with it; the one request is
\* the only one made for the call.
C26_ErrorSurfaced ==
    [][\A c \in {invoked'} :
          (/\ db = NanoDB
           /\ c.op = "findOneByID" => Truthy(c.id)
           /\ Answer(c, store, uuids).error # Null) =>
              LET error == Answer(c, store, uuids).error
              IN  /\ sent' = <<Asked(c)>>
                  /\ outcome'.threw = "none"
                  /\ IF c.callback
                     THEN /\ Len(outcome'.callbacks) = 1
                          /\ outcome'.callbacks[1].error = error
                          /\ outcome'.callbacks[1].data \in {Null, Undefined}
                          /\ outcome'.promise = Undefined
                     ELSE /\ outcome'.callbacks = <<>>
                          /\ outcome'.promise =
                                [state |-> "rejected", reason |-> error,
                                 value |-> Undefined]]_vars

\* findOneByView without a callback was rejected with the error of a
\* database that failed.
C26_Witness ==
    /\ invoked.op = "findOneByView" /\ ~invoked.callback /\ invoked.fail
    /\ db = NanoDB
    /\ outcome.promise # Undefined
    /\ outcome.promise.state = "rejected"
    /\ outcome.promise.reason = Failure
    /\ Len(sent) = 1

\* save with a callback got the conflict the database reported.
C26_WitnessConflict ==
    /\ invoked.op = "save" /\ invoked.callback /\ ~invoked.fail
    /\ Len(outcome.callbacks) = 1
    /\ outcome.callbacks[1].error = Conflict

\* findAll with a callback got the error of a database that failed.
C26_WitnessFindAll ==
    /\ invoked.op = "findAll" /\ invoked.callback /\ invoked.fail
    /\ db = NanoDB
    /\ Len(outcome.callbacks) = 1
    /\ outcome.callbacks[1].error = Failure


C28_AnsweredOnce == request # NoRequest => Len(response) = 1

\* C28: no request is answered twice.
C28_NeverTwice == Len(response) <= 1

\* The request is on a route whose capability is not enabled: the index, byID
\* or save flag, or the flag of the view in restapi.views.
NotEnabled ==
    \/ request.method = "GET" /\ request.url = "/" /\ ~Enabled("index")
    \/ request.method = "GET" /\ IsSegment(request.url) /\ ~Enabled("byID")
    \/ IsSave(request) /\ ~Enabled("save")
    \/ request.method = "GET" /\ Len(Pieces) = 3 /\ ~ViewEnabled(Pieces[2])

\* C29: a request on a route whose capability is not enabled is answered 403,
\* nothing is requested from the database, and the body is neither parsed (a
\* body that is not JSON is answered 403 as well) nor saved.
C29_Forbidden ==
    NotEnabled =>
        /\ Len(response) = 1
        /\ response[1].status = 403
        /\ sent = <<>>

\* C29: such a request is refused, and nothing is requested from the
\* database.
C29_NothingRequested ==
    NotEnabled =>
        /\ Len(response) = 1
        /\ response[1].status \in {400, 403}
        /\ sent = <<>>

\* What the database answers the request of a handle's save or delete with:
\* the error, or null.
Reported(c) ==
    IF c.fail THEN Failure
    ELSE IF c.op = "save"
    THEN Insert(store, uuids, VO(handles[c.slot])).error
    ELSE Destroy(store, handles[c.slot]["_id"], handles[c.slot]["_rev"]).error

\* C30: each call of a handle's save or delete calls its completion handler
\* exactly once (with a callback: the callback is called once; without: the
\* promise is settled), with the database's error when the request failed and
\* with no error when it succeeded; and when it failed the handle's _id and
\* _rev are what they were before the call.
C30_CompletedOnce ==
    [][\A c \in {invoked'} :
          (/\ c.op \in {"save", "delete"}
           /\ HandleCall(c.slot, c.op, c.callback, c.fail)) =>
              /\ outcome'.threw = "none"
              /\ IF c.callback
                 THEN /\ Len(outcome'.callbacks) = 1
                      /\ outcome'.callbacks[1].error = Reported(c)
                 ELSE /\ outcome'.callbacks = <<>>
                      /\ IF Reported(c) = Null
                         THEN outcome'.promise.state = "fulfilled"
                         ELSE /\ outcome'.promise.state = "rejected"
                              /\ outcome'.promise.reason = Reported(c)
              /\ Reported(c) # Null =>
                    /\ handles'[c.slot]["_id"] = handles[c.slot]["_id"]
                    /\ handles'[c.slot]["_rev"] = handles[c.slot]["_rev"]]_vars

\* A save with a callback of a found instance whose revision is no longer
\* the document's was completed once, with the conflict, and the instance
\* has its id and its first revision.
C30_Witness ==
    /\ invoked.op = "save" /\ invoked.callback /\ ~invoked.fail
    /\ outcome.callbacks = <<[error |-> Conflict, data |-> Undefined]>>
    /\ handles[invoked.slot]["_id"] = Str("x")
    /\ handles[invoked.slot]["_rev"] = Rev(1)
    /\ store["x"].gen = 2

\* A delete without a callback failed, and its promise was rejected.
C30_WitnessDelete ==
    /\ invoked.op = "delete" /\ ~invoked.callback /\ invoked.fail
    /\ outcome.promise # Undefined
    /\ outcome.promise.state = "rejected"
    /\ handles[invoked.slot]["_rev"] = Rev(1)

\* A save with a callback succeeded and was completed once without error.
C30_WitnessSaved ==
    /\ invoked.op = "save" /\ invoked.callback
    /\ outcome.callbacks = <<[error |-> Null, data |-> Undefined]>>
    /\ handles[invoked.slot]["_rev"] = Rev(2)

====
